---- MODULE Spec2Model ----
(***************************************************************************)
(* Model of the podcast pipeline server: the highlight segmenter           *)
(* (services/highlightService), podcast.generateHighlights, the audio      *)
(* merge service, the avatar-video sub-pipeline, the candidate loops of    *)
(* the external calls and the background task processor.                   *)
(*                                                                         *)
(* Each component has its own specification over the shared variables;     *)
(* the variables of the other components stay at their idle values.        *)
(***************************************************************************)
EXTENDS Integers, Sequences, FiniteSets, TLC

VARIABLES
    \* ---- highlight segmenter and podcast.generateHighlights ----
    scripts,        \* the dialogue turns handed to identifyHighlights
    hlTask,         \* the task record generateHighlights reads
    hlPc,           \* position of the generateHighlights handler
    proposal,       \* result.segments: the [startIndex, endIndex] the LLM proposed
    segments,       \* the HighlightSegment[] identifyHighlights returned
    clipIdx,        \* index of the next highlight of the for-loop (1-based)
    highlights,     \* rows of podcastHighlights written by saveHighlight
    clipLog,        \* how each iteration of the for-loop ended, in order
    \* ---- audioMergeService ----
    mergeCall,      \* the call under way: entry point and arguments
    mPc,            \* position inside mergeAudioSegments
    validSegments,  \* segments.filter(s => s.url || s.localPath)
    localPaths,     \* the localPaths array
    fsFiles,        \* files present in ephemeral local storage
    concatContent,  \* lines written to the concat list file
    mergeLog,       \* what the call did: concat list written, FFmpeg run, where it threw
    mergeResult,    \* the path the call returned
    \* ---- avatar-video sub-pipeline ----
    avHighlight,    \* what getHighlight(highlightId, userId) finds
    avPc,           \* position of generateAvatarVideo / processAvatarVideoGeneration
    avTask,         \* the avatarVideoTasks row of the request
    pollAttempt,    \* the attempt counter of pollVideoStatus
    avTable,        \* the earlier avatarVideoTasks rows of the highlight, oldest first
    engineCreateCalls, \* the calls of createAvatarVideo made so far
    \* ---- candidate loops of the external calls ----
    adSite,         \* the function making the logical call
    adBehaviour,    \* what each candidate answers whenever it is called
    adPc,           \* "run" inside the loop, then "returned" or "thrown"
    adIdx,          \* the candidate the loop is at (1-based)
    adAttempts,     \* calls made to each candidate so far
    adOrder,        \* the candidates in the order they were called
    adOutcome,      \* the candidate whose result was returned, the errors raised
    \* ---- podcast.create / processPodcastTask ----
    tasks,          \* the podcastTasks table: task id -> row, or NoTask
    taskCount,      \* the last auto-increment id handed out
    run,            \* the background execution of processPodcastTask per task id,
                    \* with the stages whose external work has ended, in order
    createResponse, \* the latest submission to podcast.create and its response
    progressAnswer, \* the latest answer of podcast.getProgress
    \* ---- the owner checks of the read and delete procedures ----
    acStore,        \* one task row (its owner) and the highlight rows made from it
    acCall,         \* the latest call: procedure, caller, answer
    \* ---- the retry loop of transcribeAudio ----
    trBehaviour,    \* what the Whisper API answers to the 1st, 2nd, ... attempt
    trAttempt,      \* attempts made so far
    trPc,           \* "run" inside the loop, then "transcribed" or "failed"
    \* ---- the voice preferences ----
    vpTable,        \* the rows of voicePreferences, in insertion order
    vpSaved,        \* per user: the pairs of the last two successful saves
    vpCall,         \* the latest call of voice.savePreference / getPreference
    \* ---- waitForPodcastCompletion ----
    wpPc,           \* "loop" at the head of the while loop, "final", "returned", "thrown"
    wpQueries,      \* calls of getPodcastEpisode made so far
    wpCount,        \* consecutivePendingCount
    wpInterval,     \* pollInterval, in ms
    wpLastSleep,    \* the latest sleep between two queries, in ms (0: none yet)
    wpObservedFailed, \* some query answered processStatus "failed"
    wpRaised        \* the error the call threw

hlVars == <<scripts, hlTask, hlPc, proposal, segments, clipIdx, highlights, clipLog>>
mergeVars == <<mergeCall, mPc, validSegments, localPaths, fsFiles, concatContent,
               mergeLog, mergeResult>>
avVars == <<avHighlight, avPc, avTask, pollAttempt, avTable, engineCreateCalls>>
adVars == <<adSite, adBehaviour, adPc, adIdx, adAttempts, adOrder, adOutcome>>
plVars == <<tasks, taskCount, run, createResponse, progressAnswer>>
acVars == <<acStore, acCall>>
trVars == <<trBehaviour, trAttempt, trPc>>
vpVars == <<vpTable, vpSaved, vpCall>>
wpVars == <<wpPc, wpQueries, wpCount, wpInterval, wpLastSleep, wpObservedFailed,
            wpRaised>>

notHl == <<mergeVars, avVars, adVars, plVars, acVars, trVars, vpVars, wpVars>>
notMerge == <<hlVars, avVars, adVars, plVars, acVars, trVars, vpVars, wpVars>>
notAv == <<hlVars, mergeVars, adVars, plVars, acVars, trVars, vpVars, wpVars>>
notAd == <<hlVars, mergeVars, avVars, plVars, acVars, trVars, vpVars, wpVars>>
notPl == <<hlVars, mergeVars, avVars, adVars, acVars, trVars, vpVars, wpVars>>
notAc == <<hlVars, mergeVars, avVars, adVars, plVars, trVars, vpVars, wpVars>>

notTr == <<hlVars, mergeVars, avVars, adVars, plVars, acVars, vpVars, wpVars>>

notVp == <<hlVars, mergeVars, avVars, adVars, plVars, acVars, trVars, wpVars>>

notWp == <<hlVars, mergeVars, avVars, adVars, plVars, acVars, trVars, vpVars>>

vars == <<hlVars, mergeVars, avVars, adVars, plVars, acVars, trVars, vpVars, wpVars>>

----------------------------------------------------------------------------
(* Bounds of the model *)

MaxTurns == 2          \* longest generated script
MaxSegments == 2       \* most segments in one LLM answer
MaxMergeSegments == 3  \* longest segments array handed to mergeAudioSegments
MaxTasks == 1          \* most tasks created by podcast.create
MaxEndpoints == 4      \* endpoints of generateFlowSpeech that are modelled (of 12)
MaxQueries == 18       \* status queries of one run of waitForPodcastCompletion
MaxVoiceUsers == 2     \* users saving and reading a voice preference
MaxAvatarRequests == 2 \* avatar video requests for one highlight
MaxUsers == 3          \* users calling the procedures
MaxHighlightRows == 2  \* highlight rows of the task

(* Program constants *)

MAX_HIGHLIGHT_DURATION == 59
SecondsPerCharNum == 3         \* avgSecondsPerChar = 0.3 = 3 / 10
SecondsPerCharDen == 10
MinAvatarDuration == 2
MaxAvatarDuration == 60
maxAttempts == 60              \* pollVideoStatus(heygenVideoId, 60, 10000)
intervalMs == 10000

(* Input domains *)

ContentLens == {0, 20, 200}    \* s.content.length of a turn
NameLens == {1, 3}             \* s.speakerName.length of a turn
Turns == [nameLen : NameLens, contentLen : ContentLens]
MinIndex == 0 - 1
Indices == MinIndex .. MaxTurns   \* the LLM may answer any integer

\* Scenario A of the specification: five turns of 20, 25, 18, 30, 22 characters.
ScenarioALens == <<20, 25, 18, 30, 22>>
ScenarioA(n) == [i \in 1..5 |-> [nameLen |-> n, contentLen |-> ScenarioALens[i]]]

SeqsUpTo(S, n) == UNION {[1..k -> S] : k \in 0..n}

ScriptInputs == SeqsUpTo(Turns, MaxTurns) \cup {ScenarioA(n) : n \in NameLens}
Proposals == UNION {[1..k -> [startIndex : Indices, endIndex : Indices]] : k \in 1..MaxSegments}

TaskStatuses == {"pending", "processing", "completed", "failed"}

----------------------------------------------------------------------------
(* highlightService.identifyHighlights: deterministic post-processing *)

Min(a, b) == IF a < b THEN a ELSE b
Max(a, b) == IF a > b THEN a ELSE b

\* Array.prototype.slice(start, end): negative indices count from the end,
\* both ends are clamped to [0, length], an inverted range is empty.
SliceFrom(len, start) == IF start < 0 THEN Max(len + start, 0) ELSE Min(start, len)
Slice(seq, start, end) ==
    LET from == SliceFrom(Len(seq), start)
        to == SliceFrom(Len(seq), end)
    IN  IF to <= from THEN << >> ELSE SubSeq(seq, from + 1, to)

RECURSIVE ContentChars(_)
\* reduce((sum, s) => sum + s.content.length, 0)
ContentChars(seq) ==
    IF seq = << >> THEN 0 ELSE Head(seq).contentLen + ContentChars(Tail(seq))

RECURSIVE TranscriptLength(_)
\* length of segmentScripts.map(s => `${s.speakerName}: ${s.content}`).join("\n")
TranscriptLength(seq) ==
    IF seq = << >> THEN 0
    ELSE Head(seq).nameLen + 2 + Head(seq).contentLen
         + (IF Tail(seq) = << >> THEN 0 ELSE 1 + TranscriptLength(Tail(seq)))

\* Math.floor(n * 0.3) and Math.ceil(n * 0.3); the IEEE double product agrees
\* with the exact quotient for every n up to 5000.
FloorSeconds(n) == (n * SecondsPerCharNum) \div SecondsPerCharDen
CeilSeconds(n) == (n * SecondsPerCharNum + SecondsPerCharDen - 1) \div SecondsPerCharDen

previousChars(scr, startIndex) == ContentChars(Slice(scr, 0, startIndex))
StartTime(scr, startIndex) == FloorSeconds(previousChars(scr, startIndex))

charCount(scr, startIndex, endIndex) ==
    TranscriptLength(Slice(scr, startIndex, endIndex + 1))
RawDuration(scr, startIndex, endIndex) == CeilSeconds(charCount(scr, startIndex, endIndex))

ClampDurationNoLimit(d) == d
ClampDuration(d) == IF d > MAX_HIGHLIGHT_DURATION THEN MAX_HIGHLIGHT_DURATION ELSE d

EndTimeFromRaw(startTime, raw, clamped) == startTime + raw
EndTime(startTime, raw, clamped) == startTime + clamped

HighlightSegment(scr, p) ==
    LET startTime == StartTime(scr, p.startIndex)
        raw == RawDuration(scr, p.startIndex, p.endIndex)
        estimatedDuration == ClampDuration(raw)
    IN  [startTime |-> startTime,
         endTime |-> EndTime(startTime, raw, estimatedDuration),
         duration |-> estimatedDuration]

identifyHighlights(scr, segs) == [i \in 1..Len(segs) |-> HighlightSegment(scr, segs[i])]

----------------------------------------------------------------------------
(* podcast.generateHighlights *)

HlInit ==
    /\ scripts \in ScriptInputs
    /\ hlTask \in [exists : BOOLEAN, owned : BOOLEAN, status : TaskStatuses, hasAudio : BOOLEAN]
    /\ hlTask.exists \/ (~hlTask.owned /\ hlTask.status = "pending" /\ ~hlTask.hasAudio)
    /\ hlPc = "start"
    /\ proposal = << >>
    /\ segments = << >>
    /\ clipIdx = 0
    /\ highlights = << >>
    /\ clipLog = << >>

HlIdle ==
    /\ scripts = << >>
    /\ hlTask = [exists |-> FALSE, owned |-> FALSE, status |-> "pending", hasAudio |-> FALSE]
    /\ hlPc = "idle"
    /\ proposal = << >>
    /\ segments = << >>
    /\ clipIdx = 0
    /\ highlights = << >>
    /\ clipLog = << >>

\* The task checks at the head of the mutation: getPodcastTask(taskId,
\* ctx.user.id) found the caller's row, its status is completed, it has an
\* audio URL.
TaskEligibleAnyStatus(task) == task.exists /\ task.owned /\ task.hasAudio
TaskEligible(task) ==
    task.exists /\ task.owned /\ task.status = "completed" /\ task.hasAudio

\* NOT_FOUND, not completed, no audio.
GenerateHighlightsReject ==
    /\ hlPc = "start"
    /\ ~TaskEligible(hlTask)
    /\ hlPc' = "rejected"
    /\ UNCHANGED <<scripts, hlTask, proposal, segments, clipIdx, highlights, clipLog>>
    /\ UNCHANGED notHl

\* identifyHighlights throws (empty scripts, LLM failure, unparsable answer).
IdentifyHighlightsFail ==
    /\ hlPc = "start"
    /\ TaskEligible(hlTask)
    /\ hlPc' = "rejected"
    /\ UNCHANGED <<scripts, hlTask, proposal, segments, clipIdx, highlights, clipLog>>
    /\ UNCHANGED notHl

\* identifyHighlights returns: the LLM proposed segs, the segments are computed.
IdentifyHighlights ==
    /\ hlPc = "start"
    /\ TaskEligible(hlTask)
    /\ scripts # << >>
    /\ \E segs \in Proposals :
          /\ proposal' = segs
          /\ segments' = identifyHighlights(scripts, segs)
    /\ clipIdx' = 1
    /\ hlPc' = "clipping"
    /\ UNCHANGED <<scripts, hlTask, highlights, clipLog>>
    /\ UNCHANGED notHl

\* clipFromUrlAndUpload of the audio clip service: cuts the sub-range
\* (startTime, duration) of the source audio and uploads it; it puts no
\* condition on the duration, and what it answers (a result with url and
\* fileKey, a result lacking one of them, or a throw) is up to the engine.
ClipResults == {"ok", "throws", "no url", "no fileKey"}
clipFromUrlAndUpload(startTime, duration, engineResult) == engineResult

\* What the clip result holds: a non-blank url, a non-blank fileKey.
ClipUrl(clipResult) == clipResult \in {"ok", "no fileKey"}
ClipFileKey(clipResult) == clipResult \in {"ok", "no url"}

\* The row saveHighlight writes: the candidate's times with the clip's url
\* and fileKey.
SavedHighlight(segment, clipResult) ==
    [startTime |-> segment.startTime, endTime |-> segment.endTime,
     duration |-> segment.duration,
     audioUrl |-> ClipUrl(clipResult), audioFileKey |-> ClipFileKey(clipResult)]

\* The same without the check of clipResult.fileKey.
IterationEndNoFileKeyCheck(clipResult, saveOk) ==
    CASE clipResult = "throws" -> "clip failed"
      [] clipResult = "no url" -> "no url"
      [] OTHER -> IF saveOk THEN "saved" ELSE "save failed"
\* How one iteration of the for-loop ends: the clip throws, the checks of the
\* clip result throw, saveHighlight throws, or the row is saved.
IterationEnd(clipResult, saveOk) ==
    CASE clipResult = "throws" -> "clip failed"
      [] clipResult = "no url" -> "no url"
      [] clipResult = "no fileKey" -> "no fileKey"
      [] OTHER -> IF saveOk THEN "saved" ELSE "save failed"

\* The catch inside the for-loop swallows the error: the loop goes on with
\* the next highlight.
AfterIterationAbort(idx, n) == n + 1
AfterIteration(idx, n) == idx + 1

\* One iteration of the for-loop: clip, validate the clip result, saveHighlight.
\* A throw anywhere in the try block skips the highlight.
ClipAndSave ==
    /\ hlPc = "clipping"
    /\ clipIdx <= Len(segments)
    /\ \E engineResult \in ClipResults, saveOk \in BOOLEAN :
          LET clipResult == clipFromUrlAndUpload(segments[clipIdx].startTime,
                                                 segments[clipIdx].duration, engineResult)
              end == IterationEnd(clipResult, saveOk)
          IN  /\ clipLog' = Append(clipLog, end)
              /\ highlights' = IF end = "saved"
                               THEN Append(highlights,
                                           SavedHighlight(segments[clipIdx], clipResult))
                               ELSE highlights
              /\ clipIdx' = IF end = "saved"
                            THEN clipIdx + 1
                            ELSE AfterIteration(clipIdx, Len(segments))
    /\ UNCHANGED <<scripts, hlTask, hlPc, proposal, segments>>
    /\ UNCHANGED notHl

GenerateHighlightsReturn ==
    /\ hlPc = "clipping"
    /\ clipIdx > Len(segments)
    /\ hlPc' = "done"
    /\ UNCHANGED <<scripts, hlTask, proposal, segments, clipIdx, highlights, clipLog>>
    /\ UNCHANGED notHl

HlNext ==
    \/ GenerateHighlightsReject
    \/ IdentifyHighlightsFail
    \/ IdentifyHighlights
    \/ ClipAndSave
    \/ GenerateHighlightsReturn


----------------------------------------------------------------------------
(* services/audioMergeService *)

NoFile == [kind |-> "none", pos |-> 0, name |-> "none"]
CallerFile(seg) == [kind |-> "caller", pos |-> seg.pos, name |-> seg.name]
DownloadFile(seg) == [kind |-> "download", pos |-> seg.pos, name |-> seg.name]
ConcatFile == [kind |-> "concat", pos |-> 0, name |-> "concat"]
OutputFile == [kind |-> "output", pos |-> 0, name |-> "merged"]

NoLog == [concatWritten |-> FALSE, ffmpegRun |-> FALSE, threwAt |-> "none"]

\* mergePodcastAudio: the segments array pushed from the three optional URLs.
PodcastSegmentsMainFirst(introUrl, mainUrl, outroUrl) ==
    (IF mainUrl THEN <<[name |-> "main", url |-> TRUE, localPath |-> FALSE]>> ELSE << >>)
    \o (IF introUrl THEN <<[name |-> "intro", url |-> TRUE, localPath |-> FALSE]>> ELSE << >>)
    \o (IF outroUrl THEN <<[name |-> "outro", url |-> TRUE, localPath |-> FALSE]>> ELSE << >>)
PodcastSegments(introUrl, mainUrl, outroUrl) ==
    (IF introUrl THEN <<[name |-> "intro", url |-> TRUE, localPath |-> FALSE]>> ELSE << >>)
    \o (IF mainUrl THEN <<[name |-> "main", url |-> TRUE, localPath |-> FALSE]>> ELSE << >>)
    \o (IF outroUrl THEN <<[name |-> "outro", url |-> TRUE, localPath |-> FALSE]>> ELSE << >>)

\* The segments array with the position of every element recorded.
Numbered(segs) ==
    [i \in 1..Len(segs) |->
        [name |-> segs[i].name, pos |-> i, url |-> segs[i].url, localPath |-> segs[i].localPath]]

RECURSIVE FilterValid(_)
\* segments.filter((s) => s.url || s.localPath)
FilterValid(segs) ==
    IF segs = << >> THEN << >>
    ELSE (IF Head(segs).url \/ Head(segs).localPath THEN <<Head(segs)>> ELSE << >>)
         \o FilterValid(Tail(segs))

\* validSegments.length === 1: the short-circuit of mergeAudioSegments
IsSingleNever(valid) == FALSE
IsSingle(valid) == Len(valid) = 1

DirectSegments == [name : {"segment"}, url : BOOLEAN, localPath : BOOLEAN]
NoUrls == [intro |-> FALSE, main |-> FALSE, outro |-> FALSE]
MergeCalls ==
    {[entry |-> "mergePodcastAudio", urls |-> u, segments |-> << >>] :
        u \in [intro : BOOLEAN, main : BOOLEAN, outro : BOOLEAN]}
    \cup {[entry |-> "mergeAudioSegments", urls |-> NoUrls, segments |-> segs] :
            segs \in SeqsUpTo(DirectSegments, MaxMergeSegments)}

\* The segments array mergeAudioSegments receives.
InputSegments(call) ==
    IF call.entry = "mergePodcastAudio"
    THEN PodcastSegments(call.urls.intro, call.urls.main, call.urls.outro)
    ELSE call.segments

CallerFiles(call) ==
    {CallerFile(Numbered(call.segments)[i]) :
        i \in {j \in 1..Len(call.segments) : call.segments[j].localPath}}

MergeInit ==
    /\ mergeCall \in MergeCalls
    /\ mPc = "start"
    /\ validSegments = << >>
    /\ localPaths = << >>
    /\ fsFiles = CallerFiles(mergeCall)
    /\ concatContent = << >>
    /\ mergeLog = NoLog
    /\ mergeResult = NoFile

MergeIdle ==
    /\ mergeCall = [entry |-> "none", urls |-> NoUrls, segments |-> << >>]
    /\ mPc = "idle"
    /\ validSegments = << >>
    /\ localPaths = << >>
    /\ fsFiles = {}
    /\ concatContent = << >>
    /\ mergeLog = NoLog
    /\ mergeResult = NoFile

\* mergePodcastAudio and the head of mergeAudioSegments, up to the first await:
\* the empty checks, the filter and the single-segment short-circuit.
MergeStart ==
    /\ mPc = "start"
    /\ LET valid == FilterValid(Numbered(InputSegments(mergeCall)))
       IN  /\ validSegments' = valid
           /\ IF valid = << >>
              THEN /\ mPc' = "thrown"
                   /\ mergeLog' = [mergeLog EXCEPT !.threwAt = "empty"]
                   /\ mergeResult' = mergeResult
              ELSE IF IsSingle(valid)
              THEN IF valid[1].localPath
                   THEN /\ mPc' = "returned"
                        /\ mergeResult' = CallerFile(valid[1])
                        /\ mergeLog' = mergeLog
                   ELSE /\ mPc' = "downloadSingle"
                        /\ UNCHANGED <<mergeLog, mergeResult>>
              ELSE /\ mPc' = "download"
                   /\ UNCHANGED <<mergeLog, mergeResult>>
    /\ UNCHANGED <<mergeCall, localPaths, fsFiles, concatContent>>
    /\ UNCHANGED notMerge

\* return await downloadAudio(segment.url) of the short-circuit; downloadAudio
\* unlinks its own temp file before it rethrows.
DownloadSingle ==
    /\ mPc = "downloadSingle"
    /\ \E ok \in BOOLEAN :
          IF ok
          THEN /\ fsFiles' = fsFiles \cup {DownloadFile(validSegments[1])}
               /\ mergeResult' = DownloadFile(validSegments[1])
               /\ mPc' = "returned"
               /\ mergeLog' = mergeLog
          ELSE /\ mPc' = "thrown"
               /\ mergeLog' = [mergeLog EXCEPT !.threwAt = "download"]
               /\ UNCHANGED <<fsFiles, mergeResult>>
    /\ UNCHANGED <<mergeCall, validSegments, localPaths, concatContent>>
    /\ UNCHANGED notMerge

\* One iteration of the download loop.
DownloadNext ==
    /\ mPc = "download"
    /\ Len(localPaths) < Len(validSegments)
    /\ LET segment == validSegments[Len(localPaths) + 1]
       IN  IF segment.localPath
           THEN /\ localPaths' = Append(localPaths, CallerFile(segment))
                /\ UNCHANGED <<fsFiles, mPc, mergeLog>>
           ELSE \E ok \in BOOLEAN :
                  IF ok
                  THEN /\ localPaths' = Append(localPaths, DownloadFile(segment))
                       /\ fsFiles' = fsFiles \cup {DownloadFile(segment)}
                       /\ UNCHANGED <<mPc, mergeLog>>
                  ELSE /\ mPc' = "finally"
                       /\ mergeLog' = [mergeLog EXCEPT !.threwAt = "download"]
                       /\ UNCHANGED <<localPaths, fsFiles>>
    /\ UNCHANGED <<mergeCall, validSegments, concatContent, mergeResult>>
    /\ UNCHANGED notMerge

\* fs.writeFile(concatFilePath, concatContent)
WriteConcat ==
    /\ mPc = "download"
    /\ Len(localPaths) = Len(validSegments)
    /\ \E ok \in BOOLEAN :
          IF ok
          THEN /\ fsFiles' = fsFiles \cup {ConcatFile}
               /\ concatContent' = localPaths
               /\ mergeLog' = [mergeLog EXCEPT !.concatWritten = TRUE]
               /\ mPc' = "ffmpeg"
          ELSE /\ mPc' = "finally"
               /\ mergeLog' = [mergeLog EXCEPT !.threwAt = "writeConcat"]
               /\ UNCHANGED <<fsFiles, concatContent>>
    /\ UNCHANGED <<mergeCall, validSegments, localPaths, mergeResult>>
    /\ UNCHANGED notMerge

\* execFileAsync(FFMPEG_PATH, ["-f", "concat", ..., "-c", "copy", output]);
\* a failing run may leave a partial output file behind.
RunFfmpeg ==
    /\ mPc = "ffmpeg"
    /\ \E ok \in BOOLEAN, partial \in BOOLEAN :
          IF ok
          THEN /\ partial
               /\ fsFiles' = fsFiles \cup {OutputFile}
               /\ mergeLog' = [mergeLog EXCEPT !.ffmpegRun = TRUE]
               /\ mPc' = "unlinkConcat"
          ELSE /\ fsFiles' = IF partial THEN fsFiles \cup {OutputFile} ELSE fsFiles
               /\ mergeLog' = [mergeLog EXCEPT !.ffmpegRun = TRUE, !.threwAt = "ffmpeg"]
               /\ mPc' = "finally"
    /\ UNCHANGED <<mergeCall, validSegments, localPaths, concatContent, mergeResult>>
    /\ UNCHANGED notMerge

\* fs.unlink(concatFilePath) on the success path, then return output.
UnlinkConcat ==
    /\ mPc = "unlinkConcat"
    /\ fsFiles' = fsFiles \ {ConcatFile}
    /\ mergeResult' = OutputFile
    /\ mPc' = "finally"
    /\ UNCHANGED <<mergeCall, validSegments, localPaths, concatContent, mergeLog>>
    /\ UNCHANGED notMerge

\* The finally block: unlink every localPaths[i] whose segment had no localPath.
FinallyKeepsAll(paths, valid) == {}
FinallyUnlinksAll(paths, valid) == {paths[i] : i \in 1..Len(paths)}
FinallyUnlinked(paths, valid) ==
    {paths[i] : i \in {j \in 1..Len(paths) : ~valid[j].localPath}}

MergeFinally ==
    /\ mPc = "finally"
    /\ fsFiles' = fsFiles \ FinallyUnlinked(localPaths, validSegments)
    /\ mPc' = IF mergeLog.threwAt = "none" THEN "returned" ELSE "thrown"
    /\ UNCHANGED <<mergeCall, validSegments, localPaths, concatContent, mergeLog,
                   mergeResult>>
    /\ UNCHANGED notMerge

\* The assembly stage of processPodcastTask after mergePodcastAudio returned:
\* fs.readFile(mergedAudioPath), storagePut, then fs.unlink(mergedAudioPath);
\* an error of readFile or storagePut goes to the catch block of the stage,
\* which logs and keeps the main episode's URL.
UploadMerged ==
    /\ mPc = "returned"
    /\ mergeCall.entry = "mergePodcastAudio"
    /\ \E ok \in BOOLEAN :
          IF ok
          THEN /\ fsFiles' = fsFiles \ {mergeResult}
               /\ mergeLog' = mergeLog
          ELSE /\ fsFiles' = fsFiles
               /\ mergeLog' = [mergeLog EXCEPT !.threwAt = "upload"]
    /\ mPc' = "stageEnded"
    /\ UNCHANGED <<mergeCall, validSegments, localPaths, concatContent, mergeResult>>
    /\ UNCHANGED notMerge

MergeNext ==
    \/ MergeStart
    \/ DownloadSingle
    \/ DownloadNext
    \/ WriteConcat
    \/ RunFfmpeg
    \/ UnlinkConcat
    \/ MergeFinally
    \/ UploadMerged


----------------------------------------------------------------------------
(* podcast.generateAvatarVideo, processAvatarVideoGeneration, pollVideoStatus *)

AvatarDurations == {0, 1, 2, 30, 60, 61}

NoAvatarTask ==
    [id |-> 0, status |-> "none", apiVideoId |-> FALSE, videoUrl |-> FALSE,
     errorMessage |-> "none"]

\* createAvatarVideoTask({ ..., status: 'pending' }): a new row with the next
\* auto-increment id; the rows that exist are not touched.
CreateAvatarVideoTaskReusesRow(table, task) ==
    [table |-> table, task |-> [NoAvatarTask EXCEPT !.id = task.id, !.status = "pending"]]
CreateAvatarVideoTask(table, task) ==
    [table |-> IF task.status = "none" THEN table ELSE Append(table, task),
     task |-> [NoAvatarTask EXCEPT !.id = task.id + 1, !.status = "pending"]]

\* The error texts that end up in errorMessage.
PollExhaustedErrorGeneric == "Video generation failed"
PollExhaustedError == "Video generation timeout after 60 attempts"
ProviderErrors == {"provider error text", "Video generation failed"}
RequestError == "HeyGen API request failed"
NoVideoUrlError == "No video URL returned"

\* The status values getVideoStatus can report.
NonTerminalAnswers == {"pending", "waiting", "processing"}

\* The duration validation of generateAvatarVideo.
DurationAcceptedNoLowerLimit(d) == ~(d > MaxAvatarDuration)
DurationAcceptedStrict(d) == d > MinAvatarDuration /\ d < MaxAvatarDuration
DurationAccepted(d) == ~(d < MinAvatarDuration) /\ ~(d > MaxAvatarDuration)

AvInit ==
    /\ avHighlight \in [exists : BOOLEAN, hasAudio : BOOLEAN, duration : AvatarDurations]
    /\ avPc = "start"
    /\ avTask = NoAvatarTask
    /\ pollAttempt = 0
    /\ avTable = << >>
    /\ engineCreateCalls = 0

AvIdle ==
    /\ avHighlight = [exists |-> FALSE, hasAudio |-> FALSE, duration |-> 0]
    /\ avPc = "idle"
    /\ avTask = NoAvatarTask
    /\ pollAttempt = 0
    /\ avTable = << >>
    /\ engineCreateCalls = 0

\* generateAvatarVideo throws NOT_FOUND or BAD_REQUEST: nothing is created.
GenerateAvatarVideoReject ==
    /\ avPc = "start"
    /\ \/ ~avHighlight.exists
       \/ ~avHighlight.hasAudio
       \/ ~DurationAccepted(avHighlight.duration)
    /\ avPc' = "rejected"
    /\ UNCHANGED <<avHighlight, avTask, pollAttempt>>
    /\ UNCHANGED avTable
    /\ UNCHANGED engineCreateCalls
    /\ UNCHANGED notAv

\* generateAvatarVideo accepts: createAvatarVideoTask(status 'pending'), the
\* background processing is started and { taskId, status: 'submitted' } returned.
GenerateAvatarVideoAccept ==
    /\ avPc = "start"
    /\ avHighlight.exists
    /\ avHighlight.hasAudio
    /\ DurationAccepted(avHighlight.duration)
    /\ avTask' = CreateAvatarVideoTask(avTable, avTask).task
    /\ avTable' = CreateAvatarVideoTask(avTable, avTask).table
    /\ avPc' = "background"
    /\ UNCHANGED <<avHighlight, pollAttempt>>
    /\ UNCHANGED engineCreateCalls
    /\ UNCHANGED notAv

\* generateAvatarVideo called again for the same highlight once the
\* processing of the previous request is over: the same checks pass, a new
\* row is created and a new background processing started.
GenerateAvatarVideoAgain ==
    /\ avPc = "done"
    /\ avTask.id < MaxAvatarRequests
    /\ avTask' = CreateAvatarVideoTask(avTable, avTask).task
    /\ avTable' = CreateAvatarVideoTask(avTable, avTask).table
    /\ avPc' = "background"
    /\ pollAttempt' = 0
    /\ UNCHANGED avHighlight
    /\ UNCHANGED engineCreateCalls
    /\ UNCHANGED notAv

\* processAvatarVideoGeneration: updateAvatarVideoTask(taskId, {status: 'submitted'})
AvatarSubmitted ==
    /\ avPc = "background"
    /\ avTask' = [avTask EXCEPT !.status = "submitted"]
    /\ avPc' = "create"
    /\ UNCHANGED <<avHighlight, pollAttempt>>
    /\ UNCHANGED avTable
    /\ UNCHANGED engineCreateCalls
    /\ UNCHANGED notAv

\* The catch block of processAvatarVideoGeneration.
AvatarFailed(task, message) == [task EXCEPT !.status = "failed", !.errorMessage = message]

\* createAvatarVideo, then apiVideoId and status 'processing' are stored.
AvatarCreate ==
    /\ avPc = "create"
    /\ \E ok \in BOOLEAN :
          IF ok
          THEN /\ avTask' = [avTask EXCEPT !.status = "processing", !.apiVideoId = TRUE]
               /\ avPc' = "poll"
          ELSE /\ avTask' = AvatarFailed(avTask, RequestError)
               /\ avPc' = "done"
    /\ engineCreateCalls' = engineCreateCalls + 1
    /\ UNCHANGED <<avHighlight, pollAttempt>>
    /\ UNCHANGED avTable
    /\ UNCHANGED notAv

\* What follows a result the engine reports as completed: without a
\* video_url the throw of 'No video URL returned' into the catch block,
\* otherwise the write of status completed with the URL.
FinishedResultStoredUnchecked(task, hasUrl) ==
    [task EXCEPT !.status = "completed", !.videoUrl = hasUrl]
FinishedResultStored(task, hasUrl) ==
    IF hasUrl
    THEN [task EXCEPT !.status = "completed", !.videoUrl = TRUE]
    ELSE AvatarFailed(task, NoVideoUrlError)

\* One iteration of the loop of pollVideoStatus: a status query and, for a
\* non-terminal answer, the sleep of intervalMs before the next attempt.
PollVideoStatus ==
    /\ avPc = "poll"
    /\ pollAttempt < maxAttempts
    /\ \/ \E answer \in NonTerminalAnswers :
             /\ pollAttempt' = pollAttempt + 1
             /\ UNCHANGED <<avTask, avPc>>
       \/ \E hasUrl \in BOOLEAN :
             /\ avTask' = FinishedResultStored(avTask, hasUrl)
             /\ avPc' = "done"
             /\ UNCHANGED pollAttempt
       \/ \E message \in ProviderErrors \cup {RequestError} :
             /\ avTask' = AvatarFailed(avTask, message)
             /\ avPc' = "done"
             /\ UNCHANGED pollAttempt
    /\ UNCHANGED avHighlight
    /\ UNCHANGED avTable
    /\ UNCHANGED engineCreateCalls
    /\ UNCHANGED notAv

\* The loop ran out of attempts: the throw after the loop, caught by
\* processAvatarVideoGeneration.
PollExhausted ==
    /\ avPc = "poll"
    /\ ~(pollAttempt < maxAttempts)
    /\ avTask' = AvatarFailed(avTask, PollExhaustedError)
    /\ avPc' = "done"
    /\ UNCHANGED <<avHighlight, pollAttempt>>
    /\ UNCHANGED avTable
    /\ UNCHANGED engineCreateCalls
    /\ UNCHANGED notAv

AvNext ==
    \/ GenerateAvatarVideoReject
    \/ GenerateAvatarVideoAccept
    \/ GenerateAvatarVideoAgain
    \/ AvatarSubmitted
    \/ AvatarCreate
    \/ PollVideoStatus
    \/ PollExhausted

----------------------------------------------------------------------------
(* The candidate loops: invokeLLM (model names), analyzeYoutubeUrlDirectly  *)
(* (model names) and generateDirectNarration (strategies)                   *)

\* What a call to a candidate ends with: a result, or an error of one kind.
\* timeout and 5xx are retryable failures, 401 is a credentials rejection,
\* 429 a quota failure, 404 an unknown model, parse an unusable answer.
Outcomes == {"ok", "timeout", "5xx", "401", "429", "404", "parse"}
NarrationOutcomes == {"ok", "timeout"}
\* generateFlowSpeech: a usable answer, a thrown error (of fetch, of
\* response.text or of waitForPodcastCompletion), or an answer that is not
\* JSON or not a success.
FlowSpeechOutcomes == {"ok", "timeout", "response"}

CandidateCount(site) ==
    CASE site = "invokeLLM" -> 3
      [] site = "analyzeYoutubeUrlDirectly" -> 3
      [] site = "generateDirectNarration" -> 10
      [] site = "generateFlowSpeech" -> MaxEndpoints
      [] OTHER -> 0

Sites == {"invokeLLM", "analyzeYoutubeUrlDirectly", "generateDirectNarration",
          "generateFlowSpeech"}

Behaviours(site) ==
    [1..CandidateCount(site) ->
        CASE site = "generateDirectNarration" -> NarrationOutcomes
          [] site = "generateFlowSpeech" -> FlowSpeechOutcomes
          [] OTHER -> Outcomes]

\* The catch block of the loop of invokeLLM: only an error whose message
\* contains 404 / not found / NOT_FOUND moves on, any other error is rethrown.
LlmOnError(idx, kind) == IF kind = "404" THEN "continue" ELSE "throw"

\* The catch block of the loop of analyzeYoutubeUrlDirectly: parse errors,
\* rate limits and unknown models move on; any other error moves on only when
\* it came from the first model.
DirectOnError(idx, kind) ==
    IF kind \in {"parse", "429", "404"} THEN "continue"
    ELSE IF idx = 1 THEN "continue" ELSE "throw"

\* The catch block of the loop of generateDirectNarration: always the next strategy.
NarrationOnError(idx, kind) == "continue"

\* generateFlowSpeech has no throw and no return in its failure paths; the
\* loop of generateDirectNarration is the same in this respect.
OnError(site, idx, kind) ==
    CASE site = "invokeLLM" -> LlmOnError(idx, kind)
      [] site = "analyzeYoutubeUrlDirectly" -> DirectOnError(idx, kind)
      [] OTHER -> NarrationOnError(idx, kind)

\* What lastError holds after a failed candidate. Every catch block assigns
\* the caught error; generateFlowSpeech leaves lastError as it is when the
\* answer was not JSON (continue) or not a success (the else branch).
LastErrorAfter(site, kind, lastError) ==
    IF site = "generateFlowSpeech" /\ kind = "response" THEN lastError ELSE kind

NoOutcome == [returned |-> 0, raised |-> << >>, lastError |-> "none"]

AdInit ==
    /\ adSite \in Sites
    /\ adBehaviour \in Behaviours(adSite)
    /\ adPc = "run"
    /\ adIdx = 1
    /\ adAttempts = [c \in 1..CandidateCount(adSite) |-> 0]
    /\ adOrder = << >>
    /\ adOutcome = NoOutcome

AdIdle ==
    /\ adSite = "none"
    /\ adBehaviour = << >>
    /\ adPc = "idle"
    /\ adIdx = 0
    /\ adAttempts = << >>
    /\ adOrder = << >>
    /\ adOutcome = NoOutcome

\* One iteration of a candidate loop: the call, then return, continue or throw.
TryCandidate(site) ==
    /\ adIdx <= CandidateCount(site)
    /\ adAttempts' = [adAttempts EXCEPT ![adIdx] = @ + 1]
    /\ adOrder' = Append(adOrder, adIdx)
    /\ LET kind == adBehaviour[adIdx]
       IN  IF kind = "ok"
           THEN /\ adOutcome' = [adOutcome EXCEPT !.returned = adIdx]
                /\ adPc' = "returned"
                /\ adIdx' = adIdx
           ELSE IF OnError(site, adIdx, kind) = "continue"
           THEN /\ adOutcome' = [adOutcome EXCEPT
                                  !.lastError = LastErrorAfter(site, kind, @)]
                /\ adIdx' = adIdx + 1
                /\ adPc' = adPc
           ELSE /\ adOutcome' = [adOutcome EXCEPT !.lastError = kind,
                                                   !.raised = Append(@, kind)]
                /\ adPc' = "thrown"
                /\ adIdx' = adIdx
    /\ UNCHANGED <<adSite, adBehaviour>>
    /\ UNCHANGED notAd

\* The loop ended without a result: the error raised after the loop, which
\* carries lastError.
AllCandidatesFailed(site) ==
    /\ adIdx > CandidateCount(site)
    /\ adOutcome' = [adOutcome EXCEPT !.raised = Append(@, adOutcome.lastError)]
    /\ adPc' = "thrown"
    /\ UNCHANGED <<adSite, adBehaviour, adIdx, adAttempts, adOrder>>
    /\ UNCHANGED notAd

InvokeLLMTry ==
    /\ adSite = "invokeLLM"
    /\ adPc = "run"
    /\ TryCandidate("invokeLLM")

InvokeLLMAllFailed ==
    /\ adSite = "invokeLLM"
    /\ adPc = "run"
    /\ AllCandidatesFailed("invokeLLM")

AnalyzeDirectlyTry ==
    /\ adSite = "analyzeYoutubeUrlDirectly"
    /\ adPc = "run"
    /\ TryCandidate("analyzeYoutubeUrlDirectly")

AnalyzeDirectlyAllFailed ==
    /\ adSite = "analyzeYoutubeUrlDirectly"
    /\ adPc = "run"
    /\ AllCandidatesFailed("analyzeYoutubeUrlDirectly")

DirectNarrationTry ==
    /\ adSite = "generateDirectNarration"
    /\ adPc = "run"
    /\ TryCandidate("generateDirectNarration")

DirectNarrationAllFailed ==
    /\ adSite = "generateDirectNarration"
    /\ adPc = "run"
    /\ AllCandidatesFailed("generateDirectNarration")

GenerateFlowSpeechTry ==
    /\ adSite = "generateFlowSpeech"
    /\ adPc = "run"
    /\ TryCandidate("generateFlowSpeech")

GenerateFlowSpeechAllFailed ==
    /\ adSite = "generateFlowSpeech"
    /\ adPc = "run"
    /\ AllCandidatesFailed("generateFlowSpeech")

AdNext ==
    \/ InvokeLLMTry
    \/ InvokeLLMAllFailed
    \/ AnalyzeDirectlyTry
    \/ AnalyzeDirectlyAllFailed
    \/ DirectNarrationTry
    \/ DirectNarrationAllFailed
    \/ GenerateFlowSpeechTry
    \/ GenerateFlowSpeechAllFailed

----------------------------------------------------------------------------
(* podcast.create and the background execution processPodcastTask           *)

\* The ids of the rows of podcastTasks: the tasks podcast.create makes in
\* one run of the model and one more row, for the runs that start with
\* several tasks already created.
TaskIds == 1..(MaxTasks + 1)
NoTask == [status |-> "none"]
InputTypes == {"youtube", "text", "article"}
TerminalStatuses == {"completed", "failed"}

\* The submitted inputs: YouTube URLs in two formats, with a video id of the
\* wrong length and without a video id; texts; article URLs; "missing" is an
\* optional field left out and "not a url" a string z.string().url() refuses.
YoutubeInputs == {"missing", "not a url", "https://www.youtube.com/watch?v=AAAAAAAAAAA",
                  "https://www.youtube.com/watch?v=short", "https://example.com/page"}
TextInputs == {"missing", "", "   ", "some text"}
ArticleInputs == {"missing", "not a url", "https://example.com/article"}
SubmittedInputs(inputType) ==
    CASE inputType = "youtube" -> YoutubeInputs
      [] inputType = "text" -> TextInputs
      [] OTHER -> ArticleInputs

\* The identifiers a task row and the arguments of processPodcastTask can hold.
YoutubeUrls == {"https://www.youtube.com/watch?v=AAAAAAAAAAA", "https://youtu.be/AAAAAAAAAAA",
                "https://www.youtube.com/watch?v=BBBBBBBBBBB", "https://example.com/page"}
OtherContents(inputType) ==
    IF inputType = "text" THEN {"some text", "other text"}
    ELSE {"https://example.com/article", "https://example.com/other"}

\* z.string().url().optional() of the input schema.
SchemaAccepts(inputType, input) == inputType = "text" \/ input # "not a url"

\* String.prototype.trim on the texts above.
Trim(text) == IF text \in {"", "   "} THEN "" ELSE text

\* !textContent || !textContent.trim()
TextProvidedUntrimmed(text) == text # "missing" /\ text # ""
TextProvided(text) == text # "missing" /\ text # "" /\ Trim(text) # ""

\* extractVideoId: the captured group of the first matching pattern, or null.
extractVideoId(url) ==
    CASE url \in {"https://www.youtube.com/watch?v=AAAAAAAAAAA", "https://youtu.be/AAAAAAAAAAA"} -> "AAAAAAAAAAA"
      [] url = "https://www.youtube.com/watch?v=BBBBBBBBBBB" -> "BBBBBBBBBBB"
      [] url = "https://www.youtube.com/watch?v=short" -> "short"
      [] OTHER -> "null"

VideoIdLength(id) == IF id = "short" THEN 5 ELSE 11

isValidYoutubeUrl(url) ==
    extractVideoId(url) # "null" /\ VideoIdLength(extractVideoId(url)) = 11

\* urlToStore of podcast.create: the URL itself for youtube, a label made of
\* the input type and the content otherwise.
UrlToStore(inputType, inputContent) ==
    IF inputType = "youtube" THEN inputContent ELSE <<inputType, inputContent>>

\* The URL check at the head of processPodcastTask: only for youtube, and
\* only by video id; the row's URL replaces the argument when both ids are
\* there and differ, or when only the row's URL has an id.
ReconcileInput(inputType, inputContent, dbUrl) ==
    IF inputType # "youtube" THEN inputContent
    ELSE LET inputVideoId == extractVideoId(inputContent)
             dbVideoId == extractVideoId(dbUrl)
         IN  IF inputVideoId # "null" /\ dbVideoId # "null" /\ inputVideoId # dbVideoId
             THEN dbUrl
             ELSE IF inputVideoId = "null" /\ dbVideoId # "null"
             THEN dbUrl
             ELSE inputContent

\* The validation at the head of podcast.create.
InputAccepted(inputType, input) ==
    /\ SchemaAccepts(inputType, input)
    /\ CASE inputType = "youtube" -> input # "missing" /\ isValidYoutubeUrl(input)
         [] inputType = "text" -> TextProvided(input)
         [] OTHER -> input # "missing"

\* The row createPodcastTask inserts: status pending, no progress written yet.
NewTask(inputType, inputContent, intro, outro) ==
    [status |-> "pending", inputType |-> inputType,
     youtubeUrl |-> UrlToStore(inputType, inputContent),
     introText |-> intro, outroText |-> outro,
     progressStage |-> "none", progressPercent |-> 0,
     progressMessage |-> "none",
     errorMessage |-> "none", podcastAudioUrl |-> "none"]

NoRun == [pc |-> "none", inputType |-> "none",
          argContent |-> "none", inputContent |-> "none", ingested |-> "none",
          executions |-> 0, introText |-> FALSE,
          outroText |-> FALSE, introAudio |-> FALSE, outroAudio |-> FALSE,
          finalAudioUrl |-> "none", assembly |-> "none", stages |-> << >>]

\* The same UPDATE without its WHERE clause.
UpdatePodcastTaskEveryRow(table, taskId, updates) ==
    [u \in DOMAIN table |->
        IF table[u] = NoTask THEN table[u]
        ELSE [f \in DOMAIN table[u] |->
                IF f \in DOMAIN updates THEN updates[f] ELSE table[u][f]]]
\* UPDATE podcastTasks SET updates WHERE id = taskId: changes the named
\* columns of the row, and nothing when no row has that id.
UpdatePodcastTask(table, taskId, updates) ==
    IF table[taskId] = NoTask THEN table
    ELSE [table EXCEPT ![taskId] =
            [f \in DOMAIN table[taskId] |->
                IF f \in DOMAIN updates THEN updates[f] ELSE table[taskId][f]]]

\* The message processPodcastTask passes along with each (stage, percent).
ProgressMessage(stage, percent) ==
    CASE stage = "queued" -> "queued for processing"
      [] stage = "analyzing" /\ percent = 20 -> "analyzing the YouTube video"
      [] stage = "analyzing" /\ percent = 60 -> "analysis finished"
      [] stage = "analyzing" /\ percent = 50 -> "analyzing the text"
      [] stage = "downloading" -> "fetching the article"
      [] stage = "generating" /\ percent = 65 -> "generating the intro audio"
      [] stage = "generating" /\ percent = 75 -> "generating the main audio"
      [] stage = "generating" /\ percent = 85 -> "generating the outro audio"
      [] stage = "generating" /\ percent = 90 -> "merging the audio segments"
      [] stage = "completed" -> "podcast finished"
      [] OTHER -> "userMessage"

\* updateProgress of the progress service: persists the progress snapshot
\* (stage, percent, message) of the task and leaves its other columns alone.
UpdateProgress(table, taskId, stage, percent) ==
    UpdatePodcastTask(table, taskId,
        [progressStage |-> stage, progressPercent |-> percent,
         progressMessage |-> ProgressMessage(stage, percent)])

\* getUserFriendlyMessage(normalizeError(error)) of the error handler: one
\* user-safe message, whatever the text of the error that was caught.
getUserFriendlyMessage(rawError) == "userMessage"

\* Where the try block is after the write of status completed: that write
\* is its last statement, processPodcastTask returns.
AfterWriteCompletedCatch == "catch"
AfterWriteCompleted == "done"

Goto(t, pc) == [run EXCEPT ![t].pc = pc]

\* One awaited updateProgress inside the try block: the snapshot is written
\* and the execution moves on, or the call throws into the catch block.
ProgressStep(t, stage, percent, next) ==
    \E ok \in BOOLEAN :
        IF ok
        THEN /\ tasks' = UpdateProgress(tasks, t, stage, percent)
             /\ run' = Goto(t, next)
        ELSE /\ tasks' = tasks
             /\ run' = Goto(t, "catch")

AfterIngestAssemblesFirst(t) == IF run[t].introText THEN "mergeProgress" ELSE "mainProgress"
AfterIngest(t) == IF run[t].introText THEN "introProgress" ELSE "mainProgress"
AfterMainSkipsProgress(t) ==
    IF run[t].outroText THEN "outro"
    ELSE IF run[t].introAudio THEN "mergeProgress" ELSE "completedProgress"
AfterMain(t) ==
    IF run[t].outroText THEN "outroProgress"
    ELSE IF run[t].introAudio THEN "mergeProgress" ELSE "completedProgress"
AfterOutro(t, outroAudio) ==
    IF run[t].introAudio \/ outroAudio THEN "mergeProgress" ELSE "completedProgress"

NoResponse == [code |-> "none"]

\* return { taskId }: the statement after the call of processPodcastTask,
\* which is not awaited.
CreateReturnAwaited(taskId, inputType, input) ==
    [code |-> "WAITING", inputType |-> inputType, input |-> input, taskId |-> taskId]
CreateReturn(taskId, inputType, input) ==
    [code |-> "OK", inputType |-> inputType, input |-> input, taskId |-> taskId]

\* throw new TRPCError({ code: 'BAD_REQUEST' })
CreateRejected(inputType, input) ==
    [code |-> "BAD_REQUEST", inputType |-> inputType, input |-> input]

\* result[0].insertId of createPodcastTask: the auto-increment id.
NewTaskIdFixed(count) == 1
NewTaskId(count) == count + 1

PlInit ==
    /\ tasks = [t \in TaskIds |-> NoTask]
    /\ taskCount = 0
    /\ run = [t \in TaskIds |-> NoRun]
    /\ createResponse = NoResponse
    /\ progressAnswer = NoResponse

PlIdle ==
    /\ tasks = << >>
    /\ taskCount = 0
    /\ run = << >>
    /\ createResponse = NoResponse
    /\ progressAnswer = NoResponse

\* podcast.create with a valid input: inserts the pending row and starts
\* processPodcastTask without awaiting it.
CreatePodcast ==
    /\ NewTaskId(taskCount) <= MaxTasks
    /\ \E inputType \in InputTypes, intro \in BOOLEAN, outro \in BOOLEAN :
       \E input \in SubmittedInputs(inputType) :
        LET taskId == NewTaskId(taskCount)
        IN  /\ InputAccepted(inputType, input)
            /\ taskCount' = taskCount + 1
            /\ tasks' = [tasks EXCEPT ![taskId] = NewTask(inputType, input, intro, outro)]
            /\ run' = [run EXCEPT ![taskId] =
                         [NoRun EXCEPT !.pc = "verify", !.inputType = inputType,
                                       !.argContent = input, !.inputContent = input,
                                       !.introText = intro, !.outroText = outro,
                                       !.executions = run[taskId].executions + 1]]
            /\ createResponse' = CreateReturn(taskId, inputType, input)
    /\ UNCHANGED progressAnswer
    /\ UNCHANGED notPl

\* podcast.create with an input the schema or the validation refuses: the
\* error is thrown before createPodcastTask.
CreatePodcastReject ==
    /\ taskCount < MaxTasks
    /\ \E inputType \in InputTypes :
       \E input \in SubmittedInputs(inputType) :
            /\ ~InputAccepted(inputType, input)
            /\ createResponse' = CreateRejected(inputType, input)
    /\ UNCHANGED <<tasks, taskCount, run, progressAnswer>>
    /\ UNCHANGED notPl

\* podcast.delete by the owner: the row is removed whatever its status.
DeletePodcastTask ==
    /\ \E t \in TaskIds :
        /\ tasks[t] # NoTask
        /\ tasks' = [tasks EXCEPT ![t] = NoTask]
    /\ UNCHANGED <<taskCount, run, createResponse, progressAnswer>>
    /\ UNCHANGED notPl

\* getPodcastTask(taskId, -1): a missing row (or an unavailable database)
\* throws into the catch block.
VerifyTask ==
    /\ \E t \in TaskIds :
        /\ run[t].pc = "verify"
        /\ \E dbOk \in BOOLEAN :
            run' = IF dbOk /\ tasks[t] # NoTask
                   THEN [run EXCEPT ![t].pc = "markProcessing",
                                    ![t].inputContent =
                                        ReconcileInput(run[t].inputType, @, tasks[t].youtubeUrl)]
                   ELSE Goto(t, "catch")
    /\ UNCHANGED <<tasks, taskCount, createResponse, progressAnswer>>
    /\ UNCHANGED notPl

\* await updatePodcastTask(taskId, { status: 'processing' })
MarkProcessing ==
    /\ \E t \in TaskIds :
        /\ run[t].pc = "markProcessing"
        /\ \E ok \in BOOLEAN :
            IF ok
            THEN /\ tasks' = UpdatePodcastTask(tasks, t, [status |-> "processing"])
                 /\ run' = Goto(t, "queuedProgress")
            ELSE /\ tasks' = tasks
                 /\ run' = Goto(t, "catch")
    /\ UNCHANGED <<taskCount, createResponse, progressAnswer>>
    /\ UNCHANGED notPl

QueuedProgress ==
    /\ \E t \in TaskIds :
        /\ run[t].pc = "queuedProgress"
        /\ ProgressStep(t, "queued", 0, "ingestProgress")
    /\ UNCHANGED <<taskCount, createResponse, progressAnswer>>
    /\ UNCHANGED notPl

\* The stage and the percent of the progress write that opens the branch of
\* the input type.
IngestStage(inputType) == IF inputType = "article" THEN "downloading" ELSE "analyzing"
IngestPercentTextAhead(inputType) ==
    CASE inputType = "youtube" -> 20
      [] inputType = "text" -> 70
      [] OTHER -> 10
IngestPercent(inputType) ==
    CASE inputType = "youtube" -> 20
      [] inputType = "text" -> 50
      [] OTHER -> 10

\* The progress write that opens the branch of the input type.
IngestProgress ==
    /\ \E t \in TaskIds :
        /\ run[t].pc = "ingestProgress"
        /\ ProgressStep(t, IngestStage(run[t].inputType), IngestPercent(run[t].inputType),
                        "ingest")
    /\ UNCHANGED <<taskCount, createResponse, progressAnswer>>
    /\ UNCHANGED notPl

\* processYoutubeToPodcast / processTextToPodcast / processArticleToPodcast:
\* a result, or an error thrown into the catch block.
Ingest ==
    /\ \E t \in TaskIds :
        /\ run[t].pc = "ingest"
        /\ IF run[t].inputType = "youtube" /\ extractVideoId(run[t].inputContent) = "null"
           THEN run' = Goto(t, "catch")
           ELSE \E ok \in BOOLEAN :
                  run' = [run EXCEPT ![t].ingested = run[t].inputContent,
                                     ![t].stages = Append(@, "ingest"),
                                     ![t].pc = IF ~ok THEN "catch"
                                               ELSE IF run[t].inputType = "youtube"
                                               THEN "analyzedProgress"
                                               ELSE AfterIngest(t)]
    /\ UNCHANGED <<tasks, taskCount, createResponse, progressAnswer>>
    /\ UNCHANGED notPl

AnalyzedProgress ==
    /\ \E t \in TaskIds :
        /\ run[t].pc = "analyzedProgress"
        /\ ProgressStep(t, "analyzing", 60, AfterIngest(t))
    /\ UNCHANGED <<taskCount, createResponse, progressAnswer>>
    /\ UNCHANGED notPl

IntroProgress ==
    /\ \E t \in TaskIds :
        /\ run[t].pc = "introProgress"
        /\ ProgressStep(t, "generating", 65, "intro")
    /\ UNCHANGED <<taskCount, createResponse, progressAnswer>>
    /\ UNCHANGED notPl

\* generateChinesePodcast of the intro text, inside its own try/catch: a
\* failure leaves introEpisode null and the execution goes on.
IntroSynthesis ==
    /\ \E t \in TaskIds :
        /\ run[t].pc = "intro"
        /\ \E ok \in BOOLEAN :
            run' = [run EXCEPT ![t].introAudio = ok, ![t].pc = "mainProgress",
                               ![t].stages = Append(@, "intro")]
    /\ UNCHANGED <<tasks, taskCount, createResponse, progressAnswer>>
    /\ UNCHANGED notPl

MainProgress ==
    /\ \E t \in TaskIds :
        /\ run[t].pc = "mainProgress"
        /\ ProgressStep(t, "generating", 75, "main")
    /\ UNCHANGED <<taskCount, createResponse, progressAnswer>>
    /\ UNCHANGED notPl

\* generateChinesePodcast of the summary: not caught locally.
MainSynthesis ==
    /\ \E t \in TaskIds :
        /\ run[t].pc = "main"
        /\ \E ok \in BOOLEAN :
            run' = IF ok
                   THEN [run EXCEPT ![t].finalAudioUrl = "main", ![t].pc = AfterMain(t),
                                    ![t].stages = Append(@, "main")]
                   ELSE [run EXCEPT ![t].pc = "catch", ![t].stages = Append(@, "main")]
    /\ UNCHANGED <<tasks, taskCount, createResponse, progressAnswer>>
    /\ UNCHANGED notPl

OutroProgress ==
    /\ \E t \in TaskIds :
        /\ run[t].pc = "outroProgress"
        /\ ProgressStep(t, "generating", 85, "outro")
    /\ UNCHANGED <<taskCount, createResponse, progressAnswer>>
    /\ UNCHANGED notPl

OutroSynthesis ==
    /\ \E t \in TaskIds :
        /\ run[t].pc = "outro"
        /\ \E ok \in BOOLEAN :
            run' = [run EXCEPT ![t].outroAudio = ok, ![t].pc = AfterOutro(t, ok),
                               ![t].stages = Append(@, "outro")]
    /\ UNCHANGED <<tasks, taskCount, createResponse, progressAnswer>>
    /\ UNCHANGED notPl

MergeProgress ==
    /\ \E t \in TaskIds :
        /\ run[t].pc = "mergeProgress"
        /\ ProgressStep(t, "generating", 90, "merge")
    /\ UNCHANGED <<taskCount, createResponse, progressAnswer>>
    /\ UNCHANGED notPl

\* How the try block of the assembly ends: mergePodcastAudio throws, readFile
\* or storagePut throws, or the merged audio is uploaded.
AssemblyOutcomes == {"merge failed", "upload failed", "uploaded"}

\* finalAudioUrl = url is the statement after storagePut; the catch leaves
\* finalAudioUrl at the main episode's URL.
FinalAudioAssignedBeforeUpload(outcome, current) ==
    IF outcome # "merge failed" THEN "merged" ELSE current
FinalAudioAfter(outcome, current) ==
    IF outcome = "uploaded" THEN "merged" ELSE current

\* mergePodcastAudio, readFile and storagePut inside their try/catch: on any
\* failure the execution goes on with the main episode's audio.
MergeAndUpload ==
    /\ \E t \in TaskIds :
        /\ run[t].pc = "merge"
        /\ \E outcome \in AssemblyOutcomes :
            run' = [run EXCEPT ![t].finalAudioUrl = FinalAudioAfter(outcome, @),
                               ![t].assembly = outcome,
                               ![t].pc = "completedProgress",
                               ![t].stages = Append(@, "merge")]
    /\ UNCHANGED <<tasks, taskCount, createResponse, progressAnswer>>
    /\ UNCHANGED notPl

CompletedProgress ==
    /\ \E t \in TaskIds :
        /\ run[t].pc = "completedProgress"
        /\ ProgressStep(t, "completed", 100, "writeCompleted")
    /\ UNCHANGED <<taskCount, createResponse, progressAnswer>>
    /\ UNCHANGED notPl

\* await updatePodcastTask(taskId, { status: 'completed', ... })
WriteCompleted ==
    /\ \E t \in TaskIds :
        /\ run[t].pc = "writeCompleted"
        /\ \E ok \in BOOLEAN :
            IF ok
            THEN /\ tasks' = UpdatePodcastTask(tasks, t,
                                [status |-> "completed",
                                 podcastAudioUrl |-> run[t].finalAudioUrl])
                 /\ run' = Goto(t, AfterWriteCompleted)
            ELSE /\ tasks' = tasks
                 /\ run' = Goto(t, "catch")
    /\ UNCHANGED <<taskCount, createResponse, progressAnswer>>
    /\ UNCHANGED notPl

\* The catch block, first await: updateProgress({ stage: 'failed', percent: 0 }).
\* When it throws, processPodcastTask rejects and the caller's .catch logs it.
CatchProgress ==
    /\ \E t \in TaskIds :
        /\ run[t].pc = "catch"
        /\ \E ok \in BOOLEAN :
            IF ok
            THEN /\ tasks' = UpdateProgress(tasks, t, "failed", 0)
                 /\ run' = Goto(t, "writeFailed")
            ELSE /\ tasks' = tasks
                 /\ run' = Goto(t, "rejected")
    /\ UNCHANGED <<taskCount, createResponse, progressAnswer>>
    /\ UNCHANGED notPl

\* The catch block, second await: updatePodcastTask(taskId, { status: 'failed', errorMessage }).
WriteFailed ==
    /\ \E t \in TaskIds :
        /\ run[t].pc = "writeFailed"
        /\ \E ok \in BOOLEAN :
            IF ok
            THEN /\ tasks' = UpdatePodcastTask(tasks, t,
                                [status |-> "failed",
                                 errorMessage |-> getUserFriendlyMessage("raw error text")])
                 /\ run' = Goto(t, "done")
            ELSE /\ tasks' = tasks
                 /\ run' = Goto(t, "rejected")
    /\ UNCHANGED <<taskCount, createResponse, progressAnswer>>
    /\ UNCHANGED notPl

\* What podcast.getProgress returns for a row: stage, percent and message
\* fall back to 'queued', 0 and the preparing message when the column is empty.
ProgressOf(taskId, task) ==
    [code |-> "OK", taskId |-> taskId, status |-> task.status,
     stage |-> IF task.progressStage = "none" THEN "queued" ELSE task.progressStage,
     percent |-> task.progressPercent,
     message |-> IF task.progressMessage = "none" THEN "preparing" ELSE task.progressMessage]

\* throw new TRPCError({ code: 'NOT_FOUND' })
ProgressNotFound(taskId) == [code |-> "NOT_FOUND", taskId |-> taskId]

\* podcast.getProgress: reads the row with getPodcastTask and returns its
\* status and progress snapshot; it writes nothing.
GetProgress ==
    /\ \E t \in TaskIds :
        progressAnswer' = IF tasks[t] = NoTask THEN ProgressNotFound(t)
                          ELSE ProgressOf(t, tasks[t])
    /\ UNCHANGED <<tasks, taskCount, run, createResponse>>
    /\ UNCHANGED notPl

PlNext ==
    \/ CreatePodcast
    \/ CreatePodcastReject
    \/ DeletePodcastTask
    \/ VerifyTask
    \/ MarkProcessing
    \/ QueuedProgress
    \/ IngestProgress
    \/ Ingest
    \/ AnalyzedProgress
    \/ IntroProgress
    \/ IntroSynthesis
    \/ MainProgress
    \/ MainSynthesis
    \/ OutroProgress
    \/ OutroSynthesis
    \/ MergeProgress
    \/ MergeAndUpload
    \/ CompletedProgress
    \/ WriteCompleted
    \/ CatchProgress
    \/ WriteFailed
    \/ GetProgress

----------------------------------------------------------------------------
(* The owner checks: podcast.get, getProgress, getHighlights, delete,       *)
(* deleteHighlight called by any user for one task and its highlights       *)

Users == 1..MaxUsers
HighlightIds == 1..MaxHighlightRows
NoCall == [op |-> "none"]

\* getPodcastTask(taskId, userId): the row, unless there is none or it
\* belongs to another user (userId -1, the internal caller, is no user).
GetPodcastTask(store, userId) ==
    IF store.exists /\ store.owner = userId
    THEN [kind |-> "task", userId |-> store.owner]
    ELSE [kind |-> "undefined"]

\* getTaskHighlights(taskId, userId): every row with that taskId; the
\* userId argument is not part of the query.
GetTaskHighlights(store, userId) ==
    {[id |-> h, userId |-> store.owner] : h \in store.highlights}

\* getHighlight(highlightId, userId): the row, unless there is none or it
\* belongs to another user.
GetHighlight(store, highlightId, userId) ==
    IF highlightId \in store.highlights /\ store.owner = userId
    THEN [kind |-> "highlight", userId |-> store.owner]
    ELSE [kind |-> "undefined"]

AcInit ==
    /\ acStore \in [owner : Users, exists : {TRUE}, highlights : SUBSET HighlightIds]
    /\ acCall = NoCall

AcIdle ==
    /\ acStore = [owner |-> 0, exists |-> FALSE, highlights |-> {}]
    /\ acCall = NoCall

\* podcast.get
PodcastGet ==
    /\ \E caller \in Users :
        LET task == GetPodcastTask(acStore, caller)
        IN  acCall' = [op |-> "get", caller |-> caller,
                       answer |-> IF task.kind = "undefined" THEN "NOT_FOUND" ELSE "task",
                       rows |-> IF task.kind = "undefined" THEN {} ELSE {task}]
    /\ UNCHANGED acStore
    /\ UNCHANGED notAc

\* podcast.getProgress
PodcastGetProgress ==
    /\ \E caller \in Users :
        LET task == GetPodcastTask(acStore, caller)
        IN  acCall' = [op |-> "getProgress", caller |-> caller,
                       answer |-> IF task.kind = "undefined" THEN "NOT_FOUND" ELSE "progress",
                       rows |-> IF task.kind = "undefined" THEN {} ELSE {task}]
    /\ UNCHANGED acStore
    /\ UNCHANGED notAc

\* podcast.getHighlights
PodcastGetHighlights ==
    /\ \E caller \in Users :
        acCall' = [op |-> "getHighlights", caller |-> caller, answer |-> "highlights",
                   rows |-> GetTaskHighlights(acStore, caller)]
    /\ UNCHANGED acStore
    /\ UNCHANGED notAc

\* podcast.delete: deletePodcastTask throws unless getPodcastTask finds the
\* caller's row; the delete cascades to the highlight rows.
PodcastDelete ==
    /\ \E caller \in Users :
        IF GetPodcastTask(acStore, caller).kind = "undefined"
        THEN /\ acCall' = [op |-> "delete", caller |-> caller, answer |-> "error", rows |-> {}]
             /\ acStore' = acStore
        ELSE /\ acCall' = [op |-> "delete", caller |-> caller, answer |-> "deleted", rows |-> {}]
             /\ acStore' = [acStore EXCEPT !.exists = FALSE, !.highlights = {}]
    /\ UNCHANGED notAc

\* podcast.deleteHighlight: deleteHighlight throws unless getHighlight finds
\* the caller's row.
PodcastDeleteHighlight ==
    /\ \E caller \in Users, h \in HighlightIds :
        IF GetHighlight(acStore, h, caller).kind = "undefined"
        THEN /\ acCall' = [op |-> "deleteHighlight", caller |-> caller, answer |-> "error", rows |-> {}]
             /\ acStore' = acStore
        ELSE /\ acCall' = [op |-> "deleteHighlight", caller |-> caller, answer |-> "deleted", rows |-> {}]
             /\ acStore' = [acStore EXCEPT !.highlights = @ \ {h}]
    /\ UNCHANGED notAc

AcNext ==
    \/ PodcastGet
    \/ PodcastGetProgress
    \/ PodcastGetHighlights
    \/ PodcastDelete
    \/ PodcastDeleteHighlight

----------------------------------------------------------------------------
(* The retry loop of transcribeAudio (one candidate, several attempts)      *)

\* const maxRetries = 5
maxRetries == 5

\* What one call of openai.audio.transcriptions.create ends with: a
\* transcription, a timeout, a connection reset (ECONNRESET), a DNS failure
\* (ENOTFOUND), a 5xx answer, a 401, a 429 or a 400.
TranscribeOutcomes == {"ok", "timeout", "reset", "dns", "5xx", "401", "429", "400"}

\* const isRetryable = errorCode === 'ECONNRESET' || 'ETIMEDOUT' || 'ENOTFOUND'
\* || 'ECONNREFUSED' || 'Connection error' || 'timeout' || type 'system' ...:
\* an APIError of an HTTP status matches none of the alternatives.
isRetryable(kind) == kind \in {"timeout", "reset", "dns"}

TrInit ==
    /\ trBehaviour \in [1..maxRetries -> TranscribeOutcomes]
    /\ trAttempt = 0
    /\ trPc = "run"

TrIdle ==
    /\ trBehaviour = << >>
    /\ trAttempt = 0
    /\ trPc = "idle"

\* One iteration of the for-loop: the call, then break or the backoff sleep.
TranscribeAttempt ==
    /\ trPc = "run"
    /\ trAttempt < maxRetries
    /\ LET attempt == trAttempt + 1
           kind == trBehaviour[attempt]
       IN  /\ trAttempt' = attempt
           /\ trPc' = IF kind = "ok" THEN "transcribed"
                      ELSE IF kind \in {"401", "429"} THEN "failed"
                      ELSE IF attempt = maxRetries \/ ~isRetryable(kind) THEN "failed"
                      ELSE "run"
    /\ UNCHANGED trBehaviour
    /\ UNCHANGED notTr

----------------------------------------------------------------------------
(* The voice preferences: voice.savePreference and voice.getPreference      *)

VoiceUsers == 1..MaxVoiceUsers
VoiceIds == {"voice1", "voice2"}
VoicePairs == VoiceIds \X VoiceIds
NoPair == <<"none", "none">>

\* The unique key of voicePreferences that ON DUPLICATE KEY UPDATE acts on:
\* the user id, one preference per user.
DuplicateKey(row) == row.userId

\* saveVoicePreference: INSERT ... ON DUPLICATE KEY UPDATE host1VoiceId, host2VoiceId
SaveVoicePreferenceInsertOnly(table, row) == Append(table, row)
SaveVoicePreference(table, row) ==
    IF \E i \in 1..Len(table) : DuplicateKey(table[i]) = DuplicateKey(row)
    THEN [i \in 1..Len(table) |->
            IF DuplicateKey(table[i]) = DuplicateKey(row) THEN row ELSE table[i]]
    ELSE Append(table, row)

\* getVoicePreference: SELECT ... WHERE userId = ? LIMIT 1, result[0]. The
\* rows the query can answer with; undefined when there is none.
GetVoicePreference(table, userId) ==
    IF \E i \in 1..Len(table) : table[i].userId = userId
    THEN {<<table[i].host1VoiceId, table[i].host2VoiceId>> :
            i \in {j \in 1..Len(table) : table[j].userId = userId}}
    ELSE {NoPair}

VpInit ==
    /\ vpTable = << >>
    /\ vpSaved = [u \in VoiceUsers |-> <<NoPair, NoPair>>]
    /\ vpCall = NoCall

VpIdle ==
    /\ vpTable = << >>
    /\ vpSaved = << >>
    /\ vpCall = NoCall

\* voice.savePreference: { success: true }, or the error of the database.
VoiceSavePreference ==
    /\ \E u \in VoiceUsers, pair \in VoicePairs, dbOk \in BOOLEAN :
          IF dbOk
          THEN /\ vpTable' = SaveVoicePreference(vpTable,
                                [userId |-> u, host1VoiceId |-> pair[1],
                                 host2VoiceId |-> pair[2]])
               /\ vpSaved' = [vpSaved EXCEPT ![u] = <<@[2], pair>>]
               /\ vpCall' = [proc |-> "savePreference", user |-> u, answer |-> "success"]
          ELSE /\ vpCall' = [proc |-> "savePreference", user |-> u, answer |-> "error"]
               /\ UNCHANGED <<vpTable, vpSaved>>
    /\ UNCHANGED notVp

\* voice.getPreference: the row of the caller.
VoiceGetPreference ==
    /\ \E u \in VoiceUsers :
       \E pair \in GetVoicePreference(vpTable, u) :
          vpCall' = [proc |-> "getPreference", user |-> u, answer |-> pair]
    /\ UNCHANGED <<vpTable, vpSaved>>
    /\ UNCHANGED notVp

\* The optional voiceId1 / voiceId2 of a submission.
SuppliedVoiceIds == VoiceIds \cup {"undefined"}

\* The speakers generateChinesePodcast selects when customVoices is undefined.
DefaultVoices == <<"default male", "default female">>

\* processPodcastTask: finalVoiceId = voiceId || preference || undefined, and
\* customVoices = finalVoiceId1 && finalVoiceId2 ? { host1, host2 } : undefined;
\* the speakers of the main synthesis.
SynthesisVoices(voiceId1, voiceId2, preference) ==
    LET stored(i) == IF preference = NoPair THEN "undefined" ELSE preference[i]
        lookup == voiceId1 = "undefined" \/ voiceId2 = "undefined"
        finalVoiceId1 == IF voiceId1 = "undefined" /\ lookup THEN stored(1) ELSE voiceId1
        finalVoiceId2 == IF voiceId2 = "undefined" /\ lookup THEN stored(2) ELSE voiceId2
    IN  IF finalVoiceId1 # "undefined" /\ finalVoiceId2 # "undefined"
        THEN <<finalVoiceId1, finalVoiceId2>>
        ELSE DefaultVoices

\* The voices of one execution of processPodcastTask for a task of user u.
ProcessTaskVoices ==
    /\ \E u \in VoiceUsers, voiceId1 \in SuppliedVoiceIds, voiceId2 \in SuppliedVoiceIds :
       \E preference \in GetVoicePreference(vpTable, u) :
          vpCall' = [proc |-> "processPodcastTask", user |-> u,
                     voiceId1 |-> voiceId1, voiceId2 |-> voiceId2,
                     preference |-> preference,
                     answer |-> SynthesisVoices(voiceId1, voiceId2, preference)]
    /\ UNCHANGED <<vpTable, vpSaved>>
    /\ UNCHANGED notVp

VpNext ==
    \/ VoiceSavePreference
    \/ VoiceGetPreference
    \/ ProcessTaskVoices

----------------------------------------------------------------------------
(* waitForPodcastCompletion: the polling of a ListenHub episode             *)

\* What getPodcastEpisode ends with: a processStatus, or a thrown error.
EpisodeAnswers == {"success", "failed", "pending", "error"}

\* The interval chosen after a pending answer from consecutivePendingCount.
PollIntervalFor(count) ==
    IF count <= 5 THEN 3000 ELSE IF count <= 15 THEN 5000 ELSE 10000

\* The final check: its try block throws for "failed" and its catch block
\* logs whatever was thrown; the timeout error follows.
FinalCheck(answer) == IF answer = "success" THEN "returned" ELSE "timeout"

WpInit ==
    /\ wpPc = "loop"
    /\ wpQueries = 0
    /\ wpCount = 0
    /\ wpInterval = 5000
    /\ wpLastSleep = 0
    /\ wpObservedFailed = FALSE
    /\ wpRaised = "none"

WpIdle ==
    /\ wpPc = "idle"
    /\ wpQueries = 0
    /\ wpCount = 0
    /\ wpInterval = 0
    /\ wpLastSleep = 0
    /\ wpObservedFailed = FALSE
    /\ wpRaised = "none"

\* One iteration of the while loop: the query, then return, throw, or the
\* sleep of pollInterval (in the try block after a pending answer, in the
\* catch block after an error of the query).
PollEpisode ==
    /\ wpPc = "loop"
    /\ wpQueries < MaxQueries
    /\ wpQueries' = wpQueries + 1
    /\ \E answer \in EpisodeAnswers :
          CASE answer = "success" ->
                 /\ wpPc' = "returned"
                 /\ UNCHANGED <<wpCount, wpInterval, wpLastSleep, wpObservedFailed, wpRaised>>
            [] answer = "failed" ->
                 /\ wpPc' = "thrown"
                 /\ wpObservedFailed' = TRUE
                 /\ wpRaised' = "provider failure"
                 /\ UNCHANGED <<wpCount, wpInterval, wpLastSleep>>
            [] answer = "pending" ->
                 /\ wpCount' = wpCount + 1
                 /\ wpInterval' = PollIntervalFor(wpCount + 1)
                 /\ wpLastSleep' = PollIntervalFor(wpCount + 1)
                 /\ UNCHANGED <<wpPc, wpObservedFailed, wpRaised>>
            [] OTHER ->
                 /\ wpLastSleep' = wpInterval
                 /\ UNCHANGED <<wpPc, wpCount, wpInterval, wpObservedFailed, wpRaised>>
    /\ UNCHANGED notWp

\* Date.now() - startTime < maxWaitTime is false at the head of the loop,
\* then the final check and the throw of the timeout error.
DeadlinePassed ==
    /\ wpPc = "loop"
    /\ wpQueries' = wpQueries + 1
    /\ \E answer \in EpisodeAnswers :
          /\ wpObservedFailed' = (wpObservedFailed \/ answer = "failed")
          /\ wpPc' = IF FinalCheck(answer) = "returned" THEN "returned" ELSE "thrown"
          /\ wpRaised' = IF FinalCheck(answer) = "returned" THEN wpRaised
                         ELSE FinalCheck(answer)
    /\ UNCHANGED <<wpCount, wpInterval, wpLastSleep>>
    /\ UNCHANGED notWp

WpNext ==
    \/ PollEpisode
    \/ DeadlinePassed

----------------------------------------------------------------------------
(* Specifications *)

InitHighlight == HlInit /\ MergeIdle /\ AvIdle /\ AdIdle /\ PlIdle /\ AcIdle /\ TrIdle /\ VpIdle /\ WpIdle
SpecHighlight == InitHighlight /\ [][HlNext]_vars

InitMerge == MergeInit /\ HlIdle /\ AvIdle /\ AdIdle /\ PlIdle /\ AcIdle /\ TrIdle /\ VpIdle /\ WpIdle
SpecMerge == InitMerge /\ [][MergeNext]_vars

InitAvatar == AvInit /\ HlIdle /\ MergeIdle /\ AdIdle /\ PlIdle /\ AcIdle /\ TrIdle /\ VpIdle /\ WpIdle
SpecAvatar == InitAvatar /\ [][AvNext]_vars

InitAdapter == AdInit /\ HlIdle /\ MergeIdle /\ AvIdle /\ PlIdle /\ AcIdle /\ TrIdle /\ VpIdle /\ WpIdle
SpecAdapter == InitAdapter /\ [][AdNext]_vars

InitPipeline == PlInit /\ HlIdle /\ MergeIdle /\ AvIdle /\ AdIdle /\ AcIdle /\ TrIdle /\ VpIdle /\ WpIdle
SpecPipeline == InitPipeline /\ [][PlNext]_vars

\* The steps of processPodcastTask that wait for no provider: the reads and
\* writes of the task row and of its progress. Each of the other steps ends
\* when its provider has answered: processYoutubeToPodcast awaits
\* model.generateContent, generateChinesePodcast awaits the fetch of
\* createPodcastEpisode and of getPodcastEpisode (the deadline of
\* waitForPodcastCompletion is read between two queries only), and
\* mergePodcastAudio and storagePut await fetch and execFile; none of these
\* awaits is given a signal or a timeout.
StepsWithoutProvider ==
    \/ VerifyTask
    \/ MarkProcessing
    \/ QueuedProgress
    \/ IngestProgress
    \/ AnalyzedProgress
    \/ IntroProgress
    \/ MainProgress
    \/ OutroProgress
    \/ MergeProgress
    \/ CompletedProgress
    \/ WriteCompleted
    \/ CatchProgress
    \/ WriteFailed

\* The pipeline with its scheduling: a step that waits for no provider is
\* taken; a step that waits for a provider is taken if the provider answers.
SpecPipelineLive == SpecPipeline /\ WF_vars(StepsWithoutProvider)

\* processPodcastTask entered for an existing pending row with any argument
\* of the row's input type, equal to the row's identifier or not.
Identifiers(inputType) ==
    IF inputType = "youtube" THEN YoutubeUrls ELSE OtherContents(inputType)

InitReconcile ==
    /\ HlIdle /\ MergeIdle /\ AvIdle /\ AdIdle /\ AcIdle /\ TrIdle /\ VpIdle /\ WpIdle
    /\ createResponse = NoResponse
    /\ progressAnswer = NoResponse
    /\ \/ /\ tasks = [t \in TaskIds |-> NoTask]
          /\ taskCount = 0
          /\ run = [t \in TaskIds |-> NoRun]
       \/ \E inputType \in InputTypes :
          \E arg \in Identifiers(inputType), stored \in Identifiers(inputType) :
             /\ taskCount = 1
             /\ tasks = [t \in TaskIds |->
                            IF t = 1 THEN NewTask(inputType, stored, FALSE, FALSE) ELSE NoTask]
             /\ run = [t \in TaskIds |->
                          IF t = 1
                          THEN [NoRun EXCEPT !.pc = "verify", !.inputType = inputType,
                                             !.argContent = arg, !.inputContent = arg,
                                             !.executions = 1]
                          ELSE NoRun]
SpecReconcile == InitReconcile /\ [][PlNext]_vars

\* Several submissions were accepted one after the other: every row is
\* pending and its processPodcastTask has been started and not awaited. The
\* executions then run concurrently, next to deletions and progress queries.
\* The first task has any input type and both an intro and an outro text,
\* the later ones are texts without them.
AcceptedInput(inputType) ==
    CHOOSE input \in SubmittedInputs(inputType) : InputAccepted(inputType, input)

InitConcurrent ==
    /\ HlIdle /\ MergeIdle /\ AvIdle /\ AdIdle /\ AcIdle /\ TrIdle /\ VpIdle /\ WpIdle
    /\ taskCount = MaxTasks + 1
    /\ progressAnswer = NoResponse
    /\ \E types \in [TaskIds -> InputTypes], intros \in [TaskIds -> BOOLEAN] :
          /\ \A t \in TaskIds : intros[t] = (t = 1)
          /\ \A t \in TaskIds : t # 1 => types[t] = "text"
          /\ tasks = [t \in TaskIds |->
                         NewTask(types[t], AcceptedInput(types[t]), intros[t], intros[t])]
          /\ run = [t \in TaskIds |->
                       [NoRun EXCEPT !.pc = "verify", !.inputType = types[t],
                                     !.argContent = AcceptedInput(types[t]),
                                     !.inputContent = AcceptedInput(types[t]),
                                     !.introText = intros[t], !.outroText = intros[t],
                                     !.executions = 1]]
          /\ createResponse = CreateReturn(MaxTasks + 1, types[MaxTasks + 1],
                                           AcceptedInput(types[MaxTasks + 1]))

ConcurrentNext ==
    \/ DeletePodcastTask
    \/ GetProgress
    \/ VerifyTask
    \/ MarkProcessing
    \/ QueuedProgress
    \/ IngestProgress
    \/ Ingest
    \/ AnalyzedProgress
    \/ IntroProgress
    \/ IntroSynthesis
    \/ MainProgress
    \/ MainSynthesis
    \/ OutroProgress
    \/ OutroSynthesis
    \/ MergeProgress
    \/ MergeAndUpload
    \/ CompletedProgress
    \/ WriteCompleted
    \/ CatchProgress
    \/ WriteFailed

SpecConcurrent == InitConcurrent /\ [][ConcurrentNext]_vars

InitAccess == AcInit /\ HlIdle /\ MergeIdle /\ AvIdle /\ AdIdle /\ PlIdle /\ TrIdle /\ VpIdle /\ WpIdle
SpecAccess == InitAccess /\ [][AcNext]_vars

InitTranscribe == TrInit /\ HlIdle /\ MergeIdle /\ AvIdle /\ AdIdle /\ PlIdle /\ AcIdle /\ VpIdle /\ WpIdle
SpecTranscribe == InitTranscribe /\ [][TranscribeAttempt]_vars

InitVoice == VpInit /\ HlIdle /\ MergeIdle /\ AvIdle /\ AdIdle /\ PlIdle /\ AcIdle /\ TrIdle /\ WpIdle
SpecVoice == InitVoice /\ [][VpNext]_vars

InitPolling == WpInit /\ HlIdle /\ MergeIdle /\ AvIdle /\ AdIdle /\ PlIdle /\ AcIdle /\ TrIdle /\ VpIdle
SpecPolling == InitPolling /\ [][WpNext]_vars

----------------------------------------------------------------------------
(* Properties of the highlight segmenter *)

HighlightsReturned == hlPc \in {"clipping", "done"}

\* C2: every highlight candidate returned by identifyHighlights has
\* endTime - startTime = duration and duration <= 59, whatever indices the
\* LLM proposed and whatever the turn lengths are.
Thm_C2 ==
    HighlightsReturned =>
        \A i \in 1..Len(segments) :
            /\ segments[i].endTime - segments[i].startTime = segments[i].duration
            /\ segments[i].duration <= 59

\* A candidate whose raw duration exceeded the limit has been returned.
Wit_C2 ==
    /\ HighlightsReturned
    /\ \E i \in 1..Len(segments) :
          /\ RawDuration(scripts, proposal[i].startIndex, proposal[i].endIndex) > 59
          /\ segments[i].duration = 59

\* C3: every Highlight row persisted by generateHighlights has
\* 2 <= duration <= 60.
Cex_C3 ==
    \A i \in 1..Len(highlights) :
        /\ MinAvatarDuration <= highlights[i].duration
        /\ highlights[i].duration <= MaxAvatarDuration

\* The character count the specification measures a turn range by: the
\* content of the turns s..e (0-based, inclusive) and of the turns before s.
InRange(scr, p) == 0 <= p.startIndex /\ p.startIndex <= p.endIndex /\ p.endIndex < Len(scr)
TextChars(scr, s, e) == ContentChars(SubSeq(scr, s + 1, e + 1))
CharsBefore(scr, s) == ContentChars(SubSeq(scr, 1, s))

\* C10: for a proposed range [s, e], startTime = 0.3 * (characters of the
\* turns before s) and the raw duration = ceil(0.3 * characters of the turns
\* s..e); for turn lengths [20,25,18,30,22] and range [0,2]: startTime = 0,
\* duration = 19, endTime = 19.
Cex_C10 ==
    HighlightsReturned =>
        \A i \in 1..Len(segments) :
            InRange(scripts, proposal[i]) =>
                LET s == proposal[i].startIndex
                    e == proposal[i].endIndex
                IN  /\ segments[i].startTime * SecondsPerCharDen
                          = SecondsPerCharNum * CharsBefore(scripts, s)
                    /\ RawDuration(scripts, s, e) = CeilSeconds(TextChars(scripts, s, e))
                    /\ (Len(scripts) = 5 /\ s = 0 /\ e = 2) =>
                          /\ segments[i].startTime = 0
                          /\ segments[i].duration = 19
                          /\ segments[i].endTime = 19

----------------------------------------------------------------------------
(* Properties of the audio merge service *)

MergeCreated == {f \in fsFiles : f.kind \in {"download", "concat", "output"}}

\* C5: when the concatenation step throws, every temporary file the merge
\* created (downloaded inputs, concat list, output) is gone when the error
\* reaches the caller, and no caller-supplied local input has been removed.
Cex_C5 ==
    (mPc = "thrown" /\ mergeLog.threwAt = "ffmpeg") =>
        /\ MergeCreated = {}
        /\ CallerFiles(mergeCall) \subseteq fsFiles

SingleInput == Len(FilterValid(Numbered(InputSegments(mergeCall)))) = 1
TheInput == FilterValid(Numbered(InputSegments(mergeCall)))[1]

\* C6: given exactly one non-empty input, mergeAudioSegments returns that
\* input's materialized local file (the caller's path, or the fresh download),
\* writes no concat list and never invokes the concatenation command.
Thm_C6 ==
    (mPc = "returned" /\ SingleInput) =>
        /\ mergeResult = (IF TheInput.localPath THEN CallerFile(TheInput)
                          ELSE DownloadFile(TheInput))
        /\ mergeResult \in fsFiles
        /\ ~mergeLog.concatWritten
        /\ ~mergeLog.ffmpegRun
        /\ ConcatFile \notin fsFiles

\* A single remote input has been downloaded and returned.
Wit_C6 ==
    /\ mPc = "returned"
    /\ SingleInput
    /\ ~TheInput.localPath
    /\ mergeResult = DownloadFile(TheInput)

NameRank(n) == CASE n = "intro" -> 1 [] n = "main" -> 2 [] n = "outro" -> 3 [] OTHER -> 0

\* C7: with intro, main and outro all present the list handed to the
\* concatenation is exactly intro, main, outro; for any present subset intro
\* precedes main and main precedes outro.
Thm_C7 ==
    (mergeCall.entry = "mergePodcastAudio" /\ mergeLog.ffmpegRun) =>
        /\ \A i, j \in 1..Len(concatContent) :
              i < j => NameRank(concatContent[i].name) < NameRank(concatContent[j].name)
        /\ {concatContent[i].name : i \in 1..Len(concatContent)}
              = {n \in {"intro", "main", "outro"} : mergeCall.urls[n]}
        /\ (mergeCall.urls.intro /\ mergeCall.urls.main /\ mergeCall.urls.outro) =>
              /\ Len(concatContent) = 3
              /\ concatContent[1].name = "intro"
              /\ concatContent[2].name = "main"
              /\ concatContent[3].name = "outro"

\* FFmpeg has been run on the three-part list.
Wit_C7 ==
    /\ mergeCall.entry = "mergePodcastAudio"
    /\ mergeLog.ffmpegRun
    /\ Len(concatContent) = 3

----------------------------------------------------------------------------
(* Properties of the avatar-video sub-pipeline *)

\* C8: a submission for a Highlight that exists and has audio is accepted
\* exactly when 2 <= duration <= 60: rejected at 1 s and at 61 s, accepted at
\* 2 s and at 60 s.
Thm_C8 ==
    (avPc \notin {"idle", "start"} /\ avHighlight.exists /\ avHighlight.hasAudio) =>
        /\ (avPc # "rejected") <=> (2 <= avHighlight.duration /\ avHighlight.duration <= 60)
        /\ avHighlight.duration \in {1, 61} => (avPc = "rejected" /\ avTask.status = "none")
        /\ avHighlight.duration \in {2, 60} => (avPc # "rejected" /\ avTask.status # "none")

\* A submission at the upper boundary has been accepted.
Wit_C8 ==
    /\ avHighlight.exists /\ avHighlight.hasAudio
    /\ avHighlight.duration = 60
    /\ avTask.status = "pending"

\* C9: when all 60 status queries were answered with a non-terminal status,
\* the AvatarVideoTask ends failed with the timeout failure, which is not a
\* provider-reported failure, and it is never marked succeeded.
Thm_C9 ==
    pollAttempt = 60 =>
        /\ avTask.status \in {"processing", "failed"}
        /\ avPc = "done" =>
              /\ avTask.status = "failed"
              /\ avTask.errorMessage = "Video generation timeout after 60 attempts"
              /\ avTask.errorMessage \notin ProviderErrors
              /\ ~avTask.videoUrl

\* The sixtieth query was answered "processing" and the task has ended.
Wit_C9 ==
    /\ pollAttempt = 60
    /\ avPc = "done"

----------------------------------------------------------------------------
(* Properties of the candidate loops *)

Retryable(kind) == kind \in {"timeout", "5xx"}
OnlyLastSucceeds ==
    /\ adBehaviour # << >>
    /\ adBehaviour[Len(adBehaviour)] = "ok"
    /\ \A c \in 1..(Len(adBehaviour) - 1) : adBehaviour[c] # "ok"

\* The number of calls that use up a candidate at these call sites.
AttemptsPerCandidate == 1

\* C4: given N candidates of which only the last succeeds, the candidates are
\* tried in list order, the call returns the last candidate's result, and
\* every earlier candidate was left after its full retry budget (retryable
\* failure) or after a single call (rejection or quota failure).
Cex_C4 ==
    (OnlyLastSucceeds /\ adPc \in {"returned", "thrown"}) =>
        /\ adPc = "returned"
        /\ adOutcome.returned = Len(adBehaviour)
        /\ adOrder = [i \in 1..Len(adBehaviour) |-> i]
        /\ \A c \in 1..(Len(adBehaviour) - 1) :
              adAttempts[c] = (IF Retryable(adBehaviour[c]) THEN AttemptsPerCandidate ELSE 1)

----------------------------------------------------------------------------
(* Properties of the task state machine *)

StatusRank(status) ==
    CASE status = "pending" -> 0
      [] status = "processing" -> 1
      [] OTHER -> 2

\* C1: the persisted status of a task only moves forward along
\* pending -> processing -> {completed | failed}, and once it is completed
\* or failed no later write changes it.
Thm_C1 ==
    [][\A t \in TaskIds :
          (tasks[t] # NoTask /\ tasks'[t] # NoTask) =>
              /\ StatusRank(tasks'[t].status) >= StatusRank(tasks[t].status)
              /\ tasks[t].status \in TerminalStatuses =>
                    tasks'[t].status = tasks[t].status]_vars

\* A task that went through processing has its terminal status written and
\* its execution is over.
Wit_C1 ==
    \E t \in TaskIds :
        /\ tasks[t] # NoTask
        /\ tasks[t].status = "completed"
        /\ tasks[t].progressStage = "completed"
        /\ run[t].pc = "done"

----------------------------------------------------------------------------
(* Properties of the pipeline stages *)

\* The positions of processPodcastTask at which the next step is the first
\* external call of a stage.
StageCallPcs == {"ingest", "intro", "main", "outro", "merge"}

\* The snapshot processPodcastTask writes when it enters the stage.
StageSnapshot(pc, inputType) ==
    CASE pc = "ingest" /\ inputType = "youtube" -> <<"analyzing", 20>>
      [] pc = "ingest" /\ inputType = "text" -> <<"analyzing", 50>>
      [] pc = "ingest" -> <<"downloading", 10>>
      [] pc = "intro" -> <<"generating", 65>>
      [] pc = "main" -> <<"generating", 75>>
      [] pc = "outro" -> <<"generating", 85>>
      [] OTHER -> <<"generating", 90>>

\* C11: whenever an execution is about to issue the first external call of
\* a stage (ingestion, intro, primary or outro synthesis, assembly), the
\* task's row holds status processing and that stage's snapshot
\* (stage, percent, message).
Thm_C11 ==
    \A t \in TaskIds :
        (run[t].pc \in StageCallPcs /\ tasks[t] # NoTask) =>
            LET snap == StageSnapshot(run[t].pc, run[t].inputType)
            IN  /\ tasks[t].status = "processing"
                /\ tasks[t].progressStage = snap[1]
                /\ tasks[t].progressPercent = snap[2]
                /\ tasks[t].progressMessage = ProgressMessage(snap[1], snap[2])

\* An execution that reached the assembly stage, after intro and outro
\* synthesis, with the assembly snapshot on the row.
Wit_C11 ==
    \E t \in TaskIds :
        /\ run[t].pc = "merge"
        /\ run[t].introAudio /\ run[t].outroAudio
        /\ tasks[t] # NoTask
        /\ tasks[t].progressPercent = 90

----------------------------------------------------------------------------
(* Properties of the persisted error messages *)

\* The texts that come from the provider's own error payload.
RawProviderTexts == {"provider error text", "raw error text"}

\* C12: whenever a Task or an AvatarVideoTask has ended in failed, the error
\* message persisted on the record is a normalized user-safe message and
\* never the raw text of the provider's error.
Cex_C12 ==
    /\ \A t \in DOMAIN tasks :
          tasks[t].status = "failed" => tasks[t].errorMessage \notin RawProviderTexts
    /\ avTask.status = "failed" => avTask.errorMessage \notin RawProviderTexts

----------------------------------------------------------------------------
(* Properties of the input reconciliation *)

\* Two identifiers name the same source: for youtube the same video id (or
\* the same string when there is none), otherwise the row holds the label
\* of the argument.
VideoIdOrSelf(url) == IF extractVideoId(url) = "null" THEN url ELSE extractVideoId(url)
SameSource(inputType, arg, stored) ==
    IF inputType = "youtube" THEN VideoIdOrSelf(arg) = VideoIdOrSelf(stored)
    ELSE UrlToStore(inputType, arg) = stored
PersistedContent(inputType, stored) == IF inputType = "youtube" THEN stored ELSE stored[2]

----------------------------------------------------------------------------
(* Properties of podcast.create *)

Thm_C15 ==
    [][/\ \A t \in TaskIds :
            (run[t].pc = "none" /\ run'[t].pc # "none") =>
                /\ createResponse'.code = "OK"
                /\ createResponse'.taskId = t
                /\ run'[t].pc = "verify"
                /\ tasks'[t].status = "pending"
       /\ (\E t \in TaskIds : run[t].pc # "none" /\ run'[t].pc # run[t].pc) =>
                createResponse' = createResponse]_vars

\* The response was delivered and the execution then failed without even
\* writing a terminal status.
Wit_C15 ==
    \E t \in TaskIds :
        /\ createResponse.code = "OK"
        /\ createResponse.taskId = t
        /\ run[t].pc = "rejected"
        /\ tasks[t] # NoTask
        /\ tasks[t].status = "processing"

\* The submissions the contract calls invalid.
InvalidSubmission(inputType, input) ==
    CASE inputType = "youtube" -> input = "missing" \/ ~isValidYoutubeUrl(input)
      [] inputType = "text" -> input \in {"missing", "", "   "}
      [] OTHER -> input \in {"missing", "not a url"}

\* C16: a submission with invalid input is answered with BAD_REQUEST in the
\* same step, and that step creates no task row and starts no execution.
Thm_C16 ==
    [][(/\ createResponse' # createResponse
        /\ createResponse'.code # "none"
        /\ InvalidSubmission(createResponse'.inputType, createResponse'.input)) =>
            /\ createResponse'.code = "BAD_REQUEST"
            /\ UNCHANGED <<tasks, taskCount, run>>]_vars

\* A whitespace-only text was refused and nothing exists.
Wit_C16 ==
    /\ createResponse.code = "BAD_REQUEST"
    /\ createResponse.inputType = "text"
    /\ createResponse.input = "   "
    /\ taskCount = 0
    /\ \A t \in TaskIds : tasks[t] = NoTask /\ run[t].pc = "none"

----------------------------------------------------------------------------
(* Properties of podcast.generateHighlights *)

\* C17: highlights are persisted only for the caller's own task with status
\* completed and an audio reference; for any other task the call fails and
\* persists nothing.
CallersCompletedTaskWithAudio ==
    /\ hlTask.exists /\ hlTask.owned
    /\ hlTask.status = "completed" /\ hlTask.hasAudio

Thm_C17 ==
    /\ highlights # << >> => CallersCompletedTaskWithAudio
    /\ (hlPc # "start" /\ ~CallersCompletedTaskWithAudio) =>
            (hlPc = "rejected" /\ highlights = << >> /\ clipLog = << >>)

\* A call for the caller's own task that is still processing was refused.
Wit_C17 ==
    /\ hlPc = "rejected"
    /\ hlTask.exists /\ hlTask.owned
    /\ hlTask.status = "processing"
    /\ scripts # << >>

\* The candidates whose iteration ended with a saved row, in order.
SavedCandidates(segs, log) ==
    LET idx == SelectSeq([i \in 1..Len(log) |-> i], LAMBDA i : log[i] = "saved")
    IN  [k \in 1..Len(idx) |-> SavedHighlight(segs[idx[k]], "ok")]

\* C18: when the call returns every candidate was attempted, whatever
\* happened to the others, and the persisted highlights are exactly the
\* candidates whose clip, upload and save succeeded.
Thm_C18 ==
    /\ hlPc = "done" => Len(clipLog) = Len(segments)
    /\ Len(clipLog) <= Len(segments)
    /\ highlights = SavedCandidates(segments, clipLog)

\* The first candidate's clip failed and the second was still saved.
Wit_C18 ==
    /\ hlPc = "done"
    /\ Len(segments) = 2
    /\ clipLog = <<"clip failed", "saved">>
    /\ Len(highlights) = 1

----------------------------------------------------------------------------
(* Properties of the owner checks *)

\* C19: a call by a user who did not create the task reads none of the
\* owner's data (get and getProgress fail, getHighlights returns no row of
\* the owner) and deletes nothing.
Cex_C19 ==
    (acCall.op # "none" /\ acCall.caller # acStore.owner) =>
        /\ acCall.op \in {"get", "getProgress"} => acCall.answer = "NOT_FOUND"
        /\ \A row \in acCall.rows : row.userId # acStore.owner
        /\ acCall.op \in {"delete", "deleteHighlight"} => acCall.answer = "error"

----------------------------------------------------------------------------
(* Properties of the AvatarVideoTask rows *)

AvatarRank(status) ==
    CASE status = "pending" -> 0
      [] status = "submitted" -> 1
      [] status = "processing" -> 2
      [] OTHER -> 3

\* C20: the status of an AvatarVideoTask only advances along
\* pending -> submitted -> processing -> {completed | failed}; a row with a
\* terminal status is never written again; a new request for the highlight
\* creates a new pending row and leaves every existing row as it is.
Thm_C20 ==
    [][/\ (avTask.status # "none" /\ avTask'.id = avTask.id) =>
              /\ AvatarRank(avTask'.status) >= AvatarRank(avTask.status)
              /\ avTask.status \in {"completed", "failed"} => avTask' = avTask
       /\ \A i \in 1..Len(avTable) : Len(avTable') >= i /\ avTable'[i] = avTable[i]
       /\ avTask'.id # avTask.id =>
              /\ avTask'.status = "pending"
              /\ \A i \in 1..Len(avTable') : avTable'[i].id # avTask'.id
              /\ avTask.status # "none" => avTable' = Append(avTable, avTask)]_vars

\* A first request failed; the retry is a second row, which completed.
Wit_C20 ==
    /\ Len(avTable) = 1
    /\ avTable[1].status = "failed"
    /\ avTask.status = "completed"
    /\ avTask.id = 2

----------------------------------------------------------------------------
(* Properties of the order of an avatar video submission *)

\* C21: an avatar video submission validates the duration, then stores the
\* AvatarVideoTask as pending, then calls the engine's create operation; a
\* rejected submission creates no AvatarVideoTask and calls the engine never.
Thm_C21 ==
    [][/\ avTask'.id # avTask.id =>
              /\ 2 <= avHighlight.duration /\ avHighlight.duration <= 60
              /\ avTask'.status = "pending"
              /\ engineCreateCalls' = engineCreateCalls
              /\ engineCreateCalls = avTask.id
       /\ engineCreateCalls' # engineCreateCalls =>
              /\ 2 <= avHighlight.duration /\ avHighlight.duration <= 60
              /\ avTask.id = engineCreateCalls'
              /\ avTask.status = "submitted"
       /\ (avPc = "rejected" \/ avPc' = "rejected") =>
              /\ avPc' = "rejected"
              /\ avTask' = NoAvatarTask
              /\ avTable' = << >>
              /\ engineCreateCalls' = 0]_vars

\* The three steps happened for a valid highlight, in this order.
Wit_C21 ==
    /\ avHighlight.duration = 2
    /\ avTask.id = 1
    /\ avTask.status = "processing"
    /\ engineCreateCalls = 1

\* A submission was rejected for its duration.
Wit_C21Rejected ==
    /\ avHighlight.exists /\ avHighlight.hasAudio
    /\ avHighlight.duration = 61
    /\ avPc = "rejected"

----------------------------------------------------------------------------
(* Properties of the termination of the pipeline *)

\* C22: every Task whose pipeline has been started eventually reaches
\* completed or failed: no Task stays in pending or processing forever.
\* (A Task whose row was deleted, or whose execution ended because a write
\* of the catch block itself threw, is not counted against the claim here.)
Cex_C22 ==
    \A t \in TaskIds :
        (run[t].pc = "verify") ~>
            \/ tasks[t] = NoTask
            \/ tasks[t].status \in TerminalStatuses
            \/ run[t].pc = "rejected"

----------------------------------------------------------------------------
(* Properties of the candidate loops on rejections and quota failures *)

\* C23: when a candidate fails with a bad-credentials failure (401/403), the
\* logical call fails at once: that candidate is called a single time and no
\* later candidate is called.
Cex_C23 ==
    \A c \in 1..Len(adBehaviour) :
        (adAttempts[c] > 0 /\ adBehaviour[c] = "401") =>
            /\ adPc = "thrown"
            /\ adAttempts[c] = 1
            /\ \A d \in (c + 1)..Len(adBehaviour) : adAttempts[d] = 0

\* C24: when a candidate fails with a quota failure (429), that candidate is
\* not called again and the call goes on with the next candidate: it does
\* not end while a candidate is left untried.
Cex_C24 ==
    \A c \in 1..(Len(adBehaviour) - 1) :
        (adAttempts[c] > 0 /\ adBehaviour[c] = "429") =>
            /\ adAttempts[c] = 1
            /\ adPc = "run" => adIdx > c
            /\ adPc # "run" => adAttempts[c + 1] > 0

\* C25: when every candidate of a logical call has failed, the call raises
\* exactly one failure, which carries the cause of the last candidate's
\* failure, a thrown error or an unsuccessful response alike.
Cex_C25 ==
    (/\ adPc = "thrown"
     /\ \A c \in 1..Len(adBehaviour) : adAttempts[c] > 0 /\ adBehaviour[c] # "ok") =>
        /\ Len(adOutcome.raised) = 1
        /\ adOutcome.raised[1] = adBehaviour[Len(adBehaviour)]

----------------------------------------------------------------------------
(* Properties of the retry loop of transcribeAudio *)

\* C26: a failed attempt is followed by another attempt if and only if the
\* failure is retryable (timeout, connection reset, DNS failure, 5xx) and
\* fewer than 5 attempts have been made; at most 5 attempts are made and a
\* non-retryable failure is never retried.
Cex_C26 ==
    /\ trAttempt <= 5
    /\ \A i \in 1..trAttempt :
          (trBehaviour[i] # "ok" /\ (i < trAttempt \/ trPc # "run")) =>
              ((i < trAttempt) <=>
                   (trBehaviour[i] \in {"timeout", "reset", "dns", "5xx"} /\ i < 5))

----------------------------------------------------------------------------
(* Properties of the order of the stages *)

StageOrder == <<"ingest", "intro", "main", "outro", "merge">>
StageNumber(stage) == CHOOSE i \in 1..Len(StageOrder) : StageOrder[i] = stage

\* C27: within one Task the stages run one after the other: the external
\* work of one stage at a time, each stage once and in the order ingestion,
\* intro, primary synthesis, outro, assembly; assembly starts only after
\* primary synthesis and the requested intro and outro synthesis have ended,
\* and the Task is completed only after the assembly, when there is one.
Thm_C27 ==
    \A t \in TaskIds :
        LET done == run[t].stages
            ended(stage) == \E i \in 1..Len(done) : done[i] = stage
        IN  /\ \A i, j \in 1..Len(done) :
                  i < j => StageNumber(done[i]) < StageNumber(done[j])
            /\ run[t].pc \in StageCallPcs => ~ended(run[t].pc)
            /\ run[t].pc \in {"mergeProgress", "merge"} =>
                  /\ ended("main")
                  /\ run[t].introText => ended("intro")
                  /\ run[t].outroText => ended("outro")
            /\ (tasks[t] # NoTask /\ tasks[t].status = "completed") =>
                  /\ ended("main")
                  /\ run[t].pc = "done"
                  /\ (run[t].introAudio \/ run[t].outroAudio) => ended("merge")
                  /\ run[t].introText => ended("intro")
                  /\ run[t].outroText => ended("outro")

\* A Task with intro and outro was completed after all five stages.
Wit_C27 ==
    \E t \in TaskIds :
        /\ tasks[t] # NoTask
        /\ tasks[t].status = "completed"
        /\ run[t].stages = StageOrder

----------------------------------------------------------------------------
(* Properties of the voice preferences *)

\* C28: after a user saved the voice preference (a, b), reading that user's
\* preference returns (a, b); a later save of (c, d) replaces it, so that
\* the read returns (c, d); a user never has more than one stored preference.
Thm_C28 ==
    \A u \in VoiceUsers :
        /\ Cardinality({i \in 1..Len(vpTable) : vpTable[i].userId = u}) <= 1
        /\ vpSaved[u][2] # NoPair =>
              GetVoicePreference(vpTable, u) = {vpSaved[u][2]}
        /\ (vpCall # NoCall /\ vpCall.proc = "getPreference" /\ vpCall.user = u) =>
              vpCall.answer = vpSaved[u][2]

\* A user saved (voice1, voice2), then (voice2, voice1), and read the second
\* pair, while another user has a preference too.
Wit_C28 ==
    /\ vpSaved[1] = << <<"voice1", "voice2">>, <<"voice2", "voice1">> >>
    /\ vpCall # NoCall
    /\ vpCall.proc = "getPreference"
    /\ vpCall.user = 1
    /\ vpCall.answer = <<"voice2", "voice1">>
    /\ Len(vpTable) = 2

----------------------------------------------------------------------------
(* Properties of the choice of the synthesis voices *)

\* C29: a voice identifier the submission supplies for a host is the one
\* used for the synthesis of the Task; the stored preference is used only
\* for a host the submission supplied no voice for.
Cex_C29 ==
    (vpCall # NoCall /\ vpCall.proc = "processPodcastTask") =>
        /\ vpCall.voiceId1 # "undefined" => vpCall.answer[1] = vpCall.voiceId1
        /\ vpCall.voiceId2 # "undefined" => vpCall.answer[2] = vpCall.voiceId2

----------------------------------------------------------------------------
(* Properties of the ephemeral files of the assembly stage *)

\* C30: when the assembly stage ends after merge and upload both succeeded,
\* after an input download failed or after the upload of the merged file
\* failed, none of the files created for the assembly (downloaded inputs,
\* concat list, merged output) is left in local storage.
Cex_C30 ==
    (/\ mergeCall.entry = "mergePodcastAudio"
     /\ mergeCall.urls.main /\ (mergeCall.urls.intro \/ mergeCall.urls.outro)
     /\ mPc \in {"thrown", "stageEnded"}
     /\ mergeLog.threwAt \in {"none", "download", "upload"}) =>
        \A f \in fsFiles : f.kind \notin {"download", "concat", "output"}

----------------------------------------------------------------------------
(* Properties of the inputs the caller of the merge already holds locally *)

\* C31: mergeAudioSegments never downloads an input the caller supplied as a
\* local file and never deletes such a file, whether the merge succeeds or
\* fails.
Thm_C31 ==
    [][/\ CallerFiles(mergeCall) \subseteq fsFiles'
       /\ \A f \in fsFiles' \ fsFiles :
             f.kind = "download" =>
                 ~Numbered(InputSegments(mergeCall))[f.pos].localPath]_vars

\* A merge of a local input and a downloaded input failed in FFmpeg and has
\* run its finally block.
Wit_C31 ==
    /\ mPc = "thrown"
    /\ mergeLog.threwAt = "ffmpeg"
    /\ \E i, j \in 1..Len(localPaths) :
          /\ localPaths[i].kind = "caller"
          /\ localPaths[j].kind = "download"
    /\ CallerFiles(mergeCall) \subseteq fsFiles

----------------------------------------------------------------------------
(* Properties of the polling of a narration episode *)

\* C32: the polling raises its timeout failure only if no status query saw
\* the episode as failed; when a query, the final check after the time
\* budget included, sees failed, the provider-reported failure is raised.
Cex_C32 ==
    /\ wpRaised = "timeout" => ~wpObservedFailed
    /\ (wpObservedFailed /\ wpPc = "thrown") => wpRaised = "provider failure"

\* C33: within one run the sleep between two consecutive status queries
\* never decreases, also after a status query that threw.
Cex_C33 ==
    [][wpLastSleep # 0 => wpLastSleep' >= wpLastSleep]_vars

----------------------------------------------------------------------------
(* Properties of the time windows of the highlight candidates *)

\* The turn range a proposal names lies inside the script.
TurnRangeValid(p) ==
    /\ 0 <= p.startIndex
    /\ p.startIndex <= p.endIndex
    /\ p.endIndex < Len(scripts)
TurnRangesDisjoint(p, q) == p.endIndex < q.startIndex \/ q.endIndex < p.startIndex
WindowsIntersect(a, b) ==
    /\ a.startTime < a.endTime
    /\ b.startTime < b.endTime
    /\ a.startTime < b.endTime
    /\ b.startTime < a.endTime

\* C34: two candidates returned for one episode whose turn ranges are
\* disjoint have time windows [startTime, endTime) that do not intersect.
Cex_C34 ==
    \A i, j \in 1..Len(segments) :
        (/\ TurnRangeValid(proposal[i])
         /\ TurnRangeValid(proposal[j])
         /\ TurnRangesDisjoint(proposal[i], proposal[j]))
        => ~WindowsIntersect(segments[i], segments[j])

----------------------------------------------------------------------------
(* Properties of concurrent executions of processPodcastTask *)

\* The executions that took the step: their position changed.
Stepping(t) == run'[t] # run[t]

\* C35: a step of the execution of task t leaves the row of every other task
\* as it is, and the status of a row changes only in a step of that row's own
\* execution: not in a step of another execution, not in a progress query.
Thm_C35 ==
    [][/\ \A t \in TaskIds : Stepping(t) =>
            \A u \in TaskIds \ {t} : tasks'[u] = tasks[u]
       /\ \A u \in TaskIds :
            (tasks[u] # NoTask /\ tasks'[u] # NoTask
                /\ tasks'[u].status # tasks[u].status) => Stepping(u)
       /\ progressAnswer' # progressAnswer => tasks' = tasks]_vars

\* Two executions wrote different statuses to their own rows while progress
\* queries were answered.
Wit_C35 ==
    /\ tasks[1] # NoTask /\ tasks[2] # NoTask
    /\ tasks[1].status = "completed" /\ tasks[1].podcastAudioUrl # "none"
    /\ tasks[2].status = "failed" /\ tasks[2].progressStage = "failed"
    /\ progressAnswer.code = "OK" /\ progressAnswer.taskId = 2

----------------------------------------------------------------------------
(* Properties of the progress snapshot *)

\* The step is a progress query that found the row.
ProgressReported == progressAnswer' # progressAnswer /\ progressAnswer'.code = "OK"

\* C36: when the progress query reports stage completed, the percent is 100,
\* the task's status is completed and its final audio reference is set; when
\* it reports stage failed, the task's status is failed.
Cex_C36 ==
    [][ProgressReported =>
        LET task == tasks[progressAnswer'.taskId]
        IN  /\ progressAnswer'.stage = "completed" =>
                /\ progressAnswer'.percent = 100
                /\ progressAnswer'.status = "completed"
                /\ task.podcastAudioUrl # "none"
            /\ progressAnswer'.stage = "failed" =>
                progressAnswer'.status = "failed"]_vars

----------------------------------------------------------------------------
(* Properties of the failures caught inside processPodcastTask *)

LocallyCaughtPcs == {"intro", "outro", "merge"}

\* C37: the step that ends intro synthesis, outro synthesis or merge and
\* upload never enters the catch block and leaves the row alone, whether the
\* stage failed or not; and the status completed is written together with
\* the merged audio if merge and upload both succeeded, with the audio of
\* the primary synthesis otherwise.
Thm_C37 ==
    [][\A t \in TaskIds :
        /\ (run[t].pc \in LocallyCaughtPcs /\ run'[t] # run[t]) =>
              /\ run'[t].pc \notin {"catch", "rejected"}
              /\ tasks'[t] = tasks[t]
        /\ (tasks[t] # NoTask /\ tasks'[t] # NoTask
                /\ tasks[t].status # "completed" /\ tasks'[t].status = "completed") =>
              tasks'[t].podcastAudioUrl =
                  IF run[t].assembly = "uploaded" THEN "merged" ELSE "main"]_vars

\* The intro synthesis failed, the outro was generated, the upload of the
\* merged audio failed, and the task completed with the primary audio.
Wit_C37 ==
    \E t \in TaskIds :
        /\ tasks[t] # NoTask
        /\ tasks[t].status = "completed"
        /\ tasks[t].podcastAudioUrl = "main"
        /\ run[t].introText /\ ~run[t].introAudio
        /\ run[t].outroAudio
        /\ run[t].assembly = "upload failed"

\* Intro and outro failed, nothing was merged, the task completed.
Wit_C37NoAssembly ==
    \E t \in TaskIds :
        /\ tasks[t] # NoTask
        /\ tasks[t].status = "completed"
        /\ run[t].introText /\ ~run[t].introAudio
        /\ run[t].outroText /\ ~run[t].outroAudio
        /\ run[t].assembly = "none"

----------------------------------------------------------------------------
(* Properties of the persisted progress percent *)

\* C38: the persisted percent of a task stays within 0..100; a progress
\* update never lowers it, except the update that sets stage failed, which
\* sets it to 0; and it is 100 only with stage completed.
Thm_C38 ==
    [][\A t \in TaskIds :
        (tasks[t] # NoTask /\ tasks'[t] # NoTask) =>
            /\ tasks'[t].progressPercent \in 0..100
            /\ tasks'[t].progressPercent < tasks[t].progressPercent =>
                  /\ tasks'[t].progressStage = "failed"
                  /\ tasks'[t].progressPercent = 0
            /\ tasks'[t].progressPercent = 100 => tasks'[t].progressStage = "completed"
            /\ (tasks'[t].progressStage = "completed"
                    /\ tasks[t].progressStage # "completed") =>
                  tasks'[t].progressPercent = 100]_vars

\* The primary synthesis of a task failed after the percent had reached 75: the update of the catch block set stage failed and percent 0.
Wit_C38 ==
    \E t \in TaskIds :
        /\ tasks[t] # NoTask
        /\ tasks[t].progressStage = "failed"
        /\ tasks[t].progressPercent = 0
        /\ run[t].stages # << >>
        /\ run[t].stages[Len(run[t].stages)] = "main"
        /\ run[t].finalAudioUrl = "none"

\* A task went through every progress update up to 100.
Wit_C38Completed ==
    \E t \in TaskIds :
        /\ tasks[t] # NoTask
        /\ tasks[t].progressStage = "completed"
        /\ tasks[t].progressPercent = 100
        /\ run[t].inputType = "youtube"
        /\ run[t].assembly = "uploaded"

----------------------------------------------------------------------------
(* Properties of the artifacts stored on an avatar video task *)

AvatarRows == {avTask} \cup {avTable[i] : i \in 1..Len(avTable)}

Wit_C39Completed ==
    /\ avTask.status = "completed"
    /\ avTask.apiVideoId
    /\ avTask.videoUrl

----------------------------------------------------------------------------
(* Properties of the persisted highlight rows *)

\* C40: every row generateHighlights persisted has an audio URL and a storage
\* key; a candidate whose clip result lacks either has no row.
Thm_C40 ==
    /\ \A i \in 1..Len(highlights) :
          highlights[i].audioUrl /\ highlights[i].audioFileKey
    /\ Len(highlights) =
          Cardinality({i \in 1..Len(clipLog) :
                          clipLog[i] \notin {"clip failed", "no url", "no fileKey",
                                             "save failed"}})

\* One candidate's clip result had no fileKey and was skipped, the other was
\* saved with url and fileKey.
Wit_C40 ==
    /\ hlPc = "done"
    /\ clipLog = <<"no fileKey", "saved">>
    /\ Len(highlights) = 1
    /\ highlights[1].audioUrl /\ highlights[1].audioFileKey

\* One candidate's clip result had no url and was skipped.
Wit_C40NoUrl ==
    /\ hlPc = "done"
    /\ clipLog = <<"saved", "no url">>
    /\ Len(highlights) = 1

====
